---------------------------- MODULE Spec2Model ----------------------------
(***************************************************************************)
(* A model of the Real-Debrid STRM manager (src/app): the rate limiter, the *)
(* link resolver and the batch orchestrator of real_debrid_api_client.py,   *)
(* and the cycle scheduler of cycle_manager.py / main.py.                   *)
(*                                                                         *)
(* Time is counted in whole seconds.  Code between two awaits runs          *)
(* atomically on the single asyncio event loop, so every action below is    *)
(* the code from one suspension point to the next.                          *)
(***************************************************************************)
EXTENDS Integers, Sequences, FiniteSets, TLC

(***************************************************************************)
(* Bounds of the model                                                      *)
(***************************************************************************)
\* RETRY_429_ATTEMPTS / RETRY_503_ATTEMPTS are read from the environment
\* (real_debrid_api_client.py:27-28); a single call is checked for every
\* value up to these bounds (the defaults are 3 and 2).
MaxRetry429 == 3
MaxRetry503 == 2
\* The retry settings used when a whole batch is explored.
BatchRetryMax == 1
\* The number of links handed to unrestrict_links_batch.
MaxLinks == 4
\* The longest time an HTTP response may take, in seconds.
HttpLatency == 1
\* The request budget per minute.  The code fixes it to 200
\* (real_debrid_api_client.py:22); the model scales it down so that a full
\* window of requests is reachable.  It must divide 60.
rate_limit_per_minute == 2
\* The number of cycles of the scheduler that are explored.
MaxCycles == 3
\* links of the account and calls of the pipeline in a run of process_from_api
MaxPassLinks == 2
MaxPasses == 2
\* fetch_torrents: the page size (100) and the ceiling of pages (1000), scaled
limit == 2
max_pages == 3

\* sanitize_filename: the longest name stem
MaxNameLen == 2

(***************************************************************************)
(* Program constants                                                        *)
(***************************************************************************)
concurrency_limit == 3
cycle_interval == 1200
file_expiry_days == 14
Day == 86400
RateWindow == 60
base_delay == 2
server_wait_time == 10

delay_between_requests == RateWindow \div rate_limit_per_minute

HttpStatuses == {200, 429, 503, 500}

Tasks == 1..concurrency_limit

VARIABLES
    now,                  \* time.time(), in seconds
    request_times,        \* RealDebridAPIClient.request_times
    retry_429_attempts,   \* RealDebridAPIClient.retry_429_attempts
    retry_503_attempts,   \* RealDebridAPIClient.retry_503_attempts
    task,                 \* the unrestrict_link coroutines of the running group
    issued,               \* history: every timestamp _enforce_rate_limit recorded
    server,               \* the remote API: the statuses and latencies it may show
    links,                \* unrestrict_links_batch: the input list
    batch_pc,             \* unrestrict_links_batch: position of the orchestrator
    batch_i,              \* unrestrict_links_batch: index of the current group
    batch_start_time,     \* unrestrict_links_batch: batch_start_time
    batch_wake,           \* unrestrict_links_batch: end of the pacing sleep
    results,              \* unrestrict_links_batch: results
    running,              \* RealDebridManager.running
    loop_running,         \* an asyncio event loop is running in this thread
    sched_pc,             \* run_scheduler: position of the scheduling loop
    sched_wake,           \* run_scheduler: end of the inter-cycle sleep
    cycle_count,          \* run_scheduler: cycle_count
    cycle_pc,             \* run_cycle: the next step of the cycle
    existing_files,       \* run_cycle: existing_files
    expired_urls,         \* run_cycle: expired_urls
    retry_results,        \* run_cycle: retry_results
    main_results,         \* run_cycle: what process_from_api returned
    retry_queue,          \* CycleManager.retry_queue
    file_tracking,        \* CycleManager.file_tracking
    retry_queue_file,     \* output/retry_queue.json
    file_tracking_file,   \* output/file_tracking.json
    unrestricted_file,    \* output/realdebrid_unrestricted.json
    strm,                 \* media/unorganized: pointer-file path -> [url, ctime]
    submitted,            \* history: the links handed to the resolver in this cycle
    cycle_outcomes,       \* history: how each cycle so far ended
    cycle_steps,          \* history: the steps the current cycle has performed
    cycle_ended_at,       \* history: when the last cycle ended
    signal_in_sleep,      \* history: a stop signal arrived during an inter-cycle sleep
    remote,               \* the account: its torrents and the file behind each link
    pass_pc,              \* position of a process_from_api call made outside the loop
    passes,               \* history: the result of every such call so far
    fetch_pc,             \* fetch_torrents: position of the pagination loop
    page,                 \* fetch_torrents: page
    all_torrents,         \* fetch_torrents: all_torrents
    served,               \* history: the response to every page request
    filter_pc,            \* position of a call of should_process_file
    filter_args,          \* should_process_file: filename, filesize, mime_type
    filter_result,        \* should_process_file: the dict returned
    sanitize_arg,         \* sanitize_filename: the name it is first called with
    sanitize_out,         \* history: what each call of sanitize_filename returned
    faults,               \* the disk: the folders mkdir, the pointer files write_text
                          \* and the state files open(..., 'w') fail on
    torrents_file,        \* realdebrid_torrents.json: the saved catalog
    links_file            \* realdebrid_links.txt: the exported download URLs

resolveVars == <<now, request_times, retry_429_attempts, retry_503_attempts,
                 task, issued, server>>
batchVars == <<links, batch_pc, batch_i, batch_start_time, batch_wake, results>>

schedVars == <<running, loop_running, sched_pc, sched_wake, cycle_count, cycle_pc,
               existing_files, expired_urls, retry_results, main_results,
               cycle_outcomes, cycle_steps, cycle_ended_at, signal_in_sleep>>
stateVars == <<retry_queue, file_tracking, retry_queue_file, file_tracking_file>>
diskVars == <<unrestricted_file, strm>>
passVars == <<remote, pass_pc, passes>>
fetchVars == <<fetch_pc, page, all_torrents, served>>
filterVars == <<filter_pc, filter_args, filter_result>>
sanitizeVars == <<sanitize_arg, sanitize_out>>
exportVars == <<torrents_file, links_file>>
worldVars == <<schedVars, submitted, stateVars, diskVars, passVars, fetchVars,
               filterVars, sanitizeVars, faults, exportVars>>

vars == <<resolveVars, batchVars, worldVars>>

(***************************************************************************)
(* Helpers                                                                  *)
(***************************************************************************)
RECURSIVE Pow2(_)
Pow2(n) == IF n = 0 THEN 1 ELSE 2 * Pow2(n - 1)

Last(s) == s[Len(s)]

\* The coroutine before it is created.
IdleTask ==
    [pc |-> "idle", link |-> 0,
     rate_limit_attempts |-> 0, server_error_attempts |-> 0,
     wake |-> 0, result |-> [status |-> "none"],
     posts |-> 0, responses |-> <<>>, responded_at |-> 0, waits |-> <<>>,
     acquired |-> 0]

\* unrestrict_link(session, link) entered: the counters are zeroed and the
\* loop is about to call _enforce_rate_limit.
StartedTask(link) == [IdleTask EXCEPT !.pc = "rl_enter", !.link = link]

(***************************************************************************)
(* _enforce_rate_limit                                                      *)
(***************************************************************************)
\* [t for t in self.request_times if current_time - t < 60]
Prune(rt, current_time) ==
    SelectSeq(rt, LAMBDA x : current_time - x < RateWindow)

\* self.request_times.append(current_time): _enforce_rate_limit returns
\* (acquired); the caller then issues its POST without suspending in between.
Record(t, rt, current_time) ==
    /\ request_times' = Append(rt, current_time)
    /\ issued' = Append(issued, current_time)
    /\ task' = [task EXCEPT ![t].pc = "post", ![t].posts = @ + 1,
                            ![t].acquired = @ + 1]

\* "Add small delay between requests": sleep when the last recorded request
\* is closer than delay_between_requests, otherwise record the request.
Spacing(t, rt, current_time) ==
    IF rt # <<>> /\ current_time - Last(rt) < delay_between_requests
    THEN /\ request_times' = rt
         /\ issued' = issued
         /\ task' = [task EXCEPT
                ![t].pc = "rl_spacing_sleep",
                ![t].wake = now + (delay_between_requests - (current_time - Last(rt)))]
    ELSE Record(t, rt, current_time)

\* Entry of _enforce_rate_limit up to its first suspension.
EnforceRateLimit(t) ==
    /\ task[t].pc = "rl_enter"
    /\ LET current_time == now
           rt == Prune(request_times, current_time)
       IN IF /\ Len(rt) >= rate_limit_per_minute
             /\ RateWindow - (current_time - rt[1]) > 0
          THEN /\ request_times' = rt
               /\ issued' = issued
               /\ task' = [task EXCEPT
                      ![t].pc = "rl_budget_sleep",
                      ![t].wake = now + (RateWindow - (current_time - rt[1]))]
          ELSE Spacing(t, rt, current_time)
    /\ UNCHANGED <<now, retry_429_attempts, retry_503_attempts, server, batchVars, worldVars>>

\* The budget sleep is over: the time is read again, the list pruned again,
\* and the spacing check follows.
AfterBudgetSleep(t) ==
    /\ task[t].pc = "rl_budget_sleep"
    /\ now >= task[t].wake
    /\ Spacing(t, Prune(request_times, now), now)
    /\ UNCHANGED <<now, retry_429_attempts, retry_503_attempts, server, batchVars, worldVars>>

\* The spacing sleep is over: the time is read again and recorded.
AfterSpacingSleep(t) ==
    /\ task[t].pc = "rl_spacing_sleep"
    /\ now >= task[t].wake
    /\ Record(t, request_times, now)
    /\ UNCHANGED <<now, retry_429_attempts, retry_503_attempts, server, batchVars, worldVars>>

(***************************************************************************)
(* unrestrict_link                                                          *)
(***************************************************************************)
Return(t, res, status) ==
    task' = [task EXCEPT ![t].pc = "done", ![t].result = res,
                         ![t].responses = Append(@, status),
                         ![t].responded_at = now']

\* A retry that starts the count of the other error kind afresh.
BackoffResetOther(t, field, attempts, wait_time, status) ==
    task' = [task EXCEPT ![t].pc = "backoff",
                         ![t].rate_limit_attempts =
                             IF field = "rate_limit_attempts" THEN attempts ELSE 0,
                         ![t].server_error_attempts =
                             IF field = "server_error_attempts" THEN attempts ELSE 0,
                         ![t].wake = now' + wait_time,
                         ![t].waits = Append(@, wait_time),
                         ![t].responses = Append(@, status),
                         ![t].responded_at = now']

\* rate_limit_attempts += 1 or server_error_attempts += 1, then
\* asyncio.sleep(wait_time): the other counter keeps its value.
Backoff(t, field, attempts, wait_time, status) ==
    task' = [task EXCEPT ![t].pc = "backoff",
                         ![t][field] = attempts,
                         ![t].wake = now' + wait_time,
                         ![t].waits = Append(@, wait_time),
                         ![t].responses = Append(@, status),
                         ![t].responded_at = now']

\* The retry test of the 429 branch: rate_limit_attempts <= rate_limit_retries
MayRetry429(attempts) == attempts <= retry_429_attempts

\* A retry test that allows one retry less.
MayRetry503Strict(attempts) == attempts < retry_503_attempts

\* The retry test of the 503 branch: server_error_attempts <= server_error_retries
MayRetry503(attempts) == attempts <= retry_503_attempts

\* A backoff that grows linearly.
Wait429Linear(attempts) == base_delay * attempts

\* wait_time = base_delay * (2 ** (rate_limit_attempts - 1))
Wait429(attempts) == base_delay * Pow2(attempts - 1)

\* asyncio.sleep(wait_time) starts when the response has arrived (now').
\* The branches of "async with session.post(...) as response" on one response.
OnResponse(t, status) ==
    CASE status = 200 ->
            Return(t, [link |-> task[t].link, status |-> "success"], status)
      [] status = 429 ->
            LET attempts == task[t].rate_limit_attempts + 1
            IN IF MayRetry429(attempts)
               THEN Backoff(t, "rate_limit_attempts", attempts, Wait429(attempts), status)
               ELSE Return(t, [link |-> task[t].link, status |-> "failed_rate_limit",
                               error |-> "rate_limit_exceeded"], status)
      [] status = 503 ->
            LET attempts == task[t].server_error_attempts + 1
            IN IF MayRetry503(attempts)
               THEN Backoff(t, "server_error_attempts", attempts, server_wait_time, status)
               ELSE Return(t, [link |-> task[t].link, status |-> "retry_next_cycle",
                               error |-> "server_unavailable",
                               retry_count |-> attempts], status)
      [] OTHER ->
            Return(t, [link |-> task[t].link, status |-> "failed_other",
                       error |-> "error_text", http_status |-> status], status)

\* The server answers the POST of task t with `status` after d seconds.
Respond(t) ==
    /\ task[t].pc = "post"
    /\ \E status \in server.statuses, d \in server.latencies :
          /\ now' = now + d
          /\ OnResponse(t, status)
    /\ UNCHANGED <<request_times, issued, retry_429_attempts, retry_503_attempts,
                   server, batchVars, worldVars>>

\* A call that lets the exception of its POST reach the caller.
OnExceptionPropagate(t) ==
    task' = [task EXCEPT ![t].pc = "raised", ![t].responses = Append(@, 0),
                         ![t].responded_at = now']

\* "except Exception as e": the exception outcome is returned at once.
OnException(t) ==
    Return(t, [link |-> task[t].link, status |-> "exception", error |-> "str(e)"], 0)

\* The POST (or reading its body) raises: "except Exception" returns the
\* exception outcome.
RespondException(t) ==
    /\ task[t].pc = "post"
    /\ server.raises
    /\ now' = now
    /\ OnException(t)
    /\ UNCHANGED <<request_times, issued, retry_429_attempts,
                   retry_503_attempts, server, batchVars, worldVars>>

\* A retry that issues its POST at once, without the rate limiter.
ContinueToPost(t) ==
    task' = [task EXCEPT ![t].pc = "post", ![t].posts = @ + 1]

\* "continue": the next iteration of "while True" starts with
\* await self._enforce_rate_limit().
Continue(t) ==
    task' = [task EXCEPT ![t].pc = "rl_enter"]

\* asyncio.sleep(wait_time) of a retry is over: "continue" re-enters the loop.
AfterBackoff(t) ==
    /\ task[t].pc = "backoff"
    /\ now >= task[t].wake
    /\ Continue(t)
    /\ UNCHANGED <<now, request_times, issued, retry_429_attempts,
                   retry_503_attempts, server, batchVars, worldVars>>

(***************************************************************************)
(* The media tree and the persisted state                                   *)
(***************************************************************************)
\* str(strm_file.relative_to(unorganized_dir)): the tracking key of a file.
FileKey(path) == <<"file", path[1], path[2], 0>>

\* f"retry_{processed}": the tracking key _process_retry_queue writes.
RetryKey(n) == <<"retry", <<>>, <<>>, n>>

\* d | {k: v}: a dict with one entry set.
Put(d, k, v) == [x \in DOMAIN d \cup {k} |-> IF x = k THEN v ELSE d[x]]

EmptyDict == [x \in {} |-> 0]

\* The download URL the service hands out for a link.
DirectUrl(link) == 100 + link

(***************************************************************************)
(* CycleManager                                                             *)
(***************************************************************************)
\* _get_existing_strm_files: the URLs all pointer files hold ...
ExistingUrls == {strm[p].url : p \in DOMAIN strm}

\* A scan that writes the entry of every pointer file it sees.
RECURSIVE TrackAlways(_, _)
TrackAlways(tracking, paths) ==
    IF paths = {} THEN tracking
    ELSE LET p == CHOOSE q \in paths : TRUE
         IN TrackAlways(Put(tracking, FileKey(p),
                            [created_at |-> strm[p].ctime, url |-> strm[p].url]),
                        paths \ {p})

\* ... and a tracking entry for every pointer file that has none yet
\* ("if file_key not in self.file_tracking"), created_at from st_ctime.
RECURSIVE TrackNew(_, _)
TrackNew(tracking, paths) ==
    IF paths = {} THEN tracking
    ELSE LET p == CHOOSE q \in paths : TRUE
             t == IF FileKey(p) \in DOMAIN tracking THEN tracking
                  ELSE Put(tracking, FileKey(p),
                           [created_at |-> strm[p].ctime, url |-> strm[p].url])
         IN TrackNew(t, paths \ {p})

\* An expiry test that takes the threshold itself as expired.
IsExpiredInclusive(created_at) == created_at <= now - file_expiry_days * Day

\* _check_expired_files: created_at < datetime.now() - timedelta(days=file_expiry_days)
IsExpired(created_at) == created_at < now - file_expiry_days * Day

ExpiredUrls(tracking) ==
    {tracking[k].url : k \in {x \in DOMAIN tracking : IsExpired(tracking[x].created_at)}}

\* _process_retry_queue: the tracking entries written for the queued items.
RECURSIVE TrackRetries(_, _, _)
TrackRetries(tracking, queue, processed) ==
    IF processed = Len(queue) THEN tracking
    ELSE TrackRetries(Put(tracking, RetryKey(processed + 1),
                          [created_at |-> now, url |-> queue[processed + 1].link]),
                      queue, processed + 1)

\* The loop of run_scheduler begins a cycle: cycle_count += 1, run_cycle().
CycleStart ==
    /\ sched_pc = "loop_top"
    /\ cycle_count < MaxCycles
    /\ cycle_count' = cycle_count + 1
    /\ sched_pc' = "in_cycle"
    /\ cycle_pc' = "scan"
    /\ submitted' = {}
    /\ cycle_outcomes' = Append(cycle_outcomes, "running")
    /\ cycle_steps' = <<>>
    /\ UNCHANGED <<running, loop_running, sched_wake, existing_files, expired_urls,
                   retry_results, main_results, cycle_ended_at, signal_in_sleep,
                   stateVars, diskVars, passVars, fetchVars, filterVars, sanitizeVars, faults, exportVars,
                   resolveVars, batchVars>>

\* run_cycle step 1a: existing_files = self._get_existing_strm_files()
ScanStrmFiles ==
    /\ sched_pc = "in_cycle"
    /\ cycle_pc = "scan"
    /\ existing_files' = ExistingUrls
    /\ file_tracking' = TrackNew(file_tracking, DOMAIN strm)
    /\ cycle_pc' = "expiry"
    /\ cycle_steps' = Append(cycle_steps, "scan")
    /\ UNCHANGED <<running, loop_running, sched_pc, sched_wake, cycle_count,
                   expired_urls, retry_results, main_results, submitted,
                   cycle_outcomes, cycle_ended_at, signal_in_sleep,
                   retry_queue, retry_queue_file, file_tracking_file,
                   diskVars, passVars, fetchVars, filterVars, sanitizeVars, faults, exportVars,
                   resolveVars, batchVars>>

\* run_cycle step 1b: expired_urls = set(self._check_expired_files())
CheckExpiredFiles ==
    /\ sched_pc = "in_cycle"
    /\ cycle_pc = "expiry"
    /\ expired_urls' = ExpiredUrls(file_tracking)
    /\ cycle_pc' = "retry"
    /\ cycle_steps' = Append(cycle_steps, "expiry")
    /\ UNCHANGED <<running, loop_running, sched_pc, sched_wake, cycle_count,
                   existing_files, retry_results, main_results, submitted,
                   cycle_outcomes, cycle_ended_at, signal_in_sleep,
                   stateVars, diskVars, passVars, fetchVars, filterVars, sanitizeVars, faults, exportVars,
                   resolveVars, batchVars>>

\* _save_retry_queue, _save_file_tracking: "except Exception" logs a failed
\* write and returns, and the file keeps what it held.
Saved(state_file, on_disk, value) ==
    IF state_file \in faults.state_files THEN on_disk ELSE value

\* A drain that leaves every item in the queue.
KeepRetryQueue(queue) == queue

\* new_retry_queue = [] is never appended to: every item is dropped.
NewRetryQueue(queue) == <<>>

\* run_cycle step 2: retry_results = self._process_retry_queue().  An empty
\* queue returns at once; otherwise every item is counted as succeeded, gets
\* a tracking entry, the queue is cleared and both files are saved.
ProcessRetryQueue ==
    /\ sched_pc = "in_cycle"
    /\ cycle_pc = "retry"
    /\ IF retry_queue = <<>>
       THEN /\ retry_results' = [processed |-> 0, succeeded |-> 0, failed |-> 0]
            /\ UNCHANGED stateVars
       ELSE /\ retry_results' = [processed |-> Len(retry_queue),
                                 succeeded |-> Len(retry_queue), failed |-> 0]
            /\ file_tracking' = TrackRetries(file_tracking, retry_queue, 0)
            /\ retry_queue' = NewRetryQueue(retry_queue)
            /\ retry_queue_file' = Saved("retry_queue", retry_queue_file, retry_queue')
            /\ file_tracking_file' =
                   Saved("file_tracking", file_tracking_file, file_tracking')
    /\ cycle_pc' = "process"
    /\ cycle_steps' = Append(cycle_steps, "retry")
    /\ UNCHANGED <<running, loop_running, sched_pc, sched_wake, cycle_count,
                   existing_files, expired_urls, main_results, submitted,
                   cycle_outcomes, cycle_ended_at, signal_in_sleep,
                   diskVars, passVars, fetchVars, filterVars, sanitizeVars, faults, exportVars,
                   resolveVars, batchVars>>

\* run_cycle step 3, the argument of the call:
\* existing_urls = existing_files - expired_urls
SkipSet == existing_files \ expired_urls

\* run_real_debrid_sync inside a running event loop: get_event_loop() returns
\* the running loop and run_until_complete() raises RuntimeError before the
\* pipeline starts; process_from_api catches it ("except Exception") and
\* returns a failure result.
ProcessFromApiInLoop ==
    [kind |-> "dict", success |-> FALSE, error |-> "This event loop is already running"]

\* "await x" accepts an awaitable only; process_from_api is a plain "def"
\* that returns a dict.
IsAwaitable(value) == value.kind = "coroutine"

\* A scheduler that lets the error of a cycle end it.
OnCycleErrorPropagate ==
    /\ sched_pc' = "terminated"
    /\ sched_wake' = sched_wake

\* run_scheduler, "except Exception": the error is logged and the scheduler
\* sleeps cycle_interval before the next cycle.
OnCycleError ==
    /\ sched_pc' = "sleeping"
    /\ sched_wake' = now + cycle_interval

\* run_cycle steps 3 and 4, from the call of process_from_api to the sleep
\* that follows the cycle.  The call itself is synchronous; awaiting its
\* result raises TypeError unless the result is awaitable, and only then
\* does run_cycle save the tracking file (step 4) and return its summary.
ProcessAndFinish ==
    /\ sched_pc = "in_cycle"
    /\ cycle_pc = "process"
    /\ loop_running
    /\ main_results' = ProcessFromApiInLoop
    /\ cycle_pc' = "idle"
    /\ cycle_ended_at' = now
    /\ IF IsAwaitable(main_results')
       THEN /\ file_tracking_file' =
                   Saved("file_tracking", file_tracking_file, file_tracking)
            /\ cycle_steps' = cycle_steps \o <<"process", "save_tracking">>
            /\ cycle_outcomes' = [cycle_outcomes EXCEPT ![cycle_count] = "summary"]
            /\ sched_pc' = "sleeping"
            /\ sched_wake' = now + cycle_interval
       ELSE /\ file_tracking_file' = file_tracking_file
            /\ cycle_steps' = Append(cycle_steps, "process")
            /\ cycle_outcomes' = [cycle_outcomes EXCEPT ![cycle_count] = "raised"]
            /\ OnCycleError
    /\ UNCHANGED <<running, loop_running, cycle_count, existing_files, expired_urls,
                   retry_results, submitted, signal_in_sleep,
                   retry_queue, file_tracking, retry_queue_file,
                   diskVars, passVars, fetchVars, filterVars, sanitizeVars, faults, exportVars,
                   resolveVars, batchVars>>

\* asyncio.sleep(self.cycle_interval) is over: back to "while True".
AfterCycleSleep ==
    /\ sched_pc = "sleeping"
    /\ now >= sched_wake
    /\ sched_pc' = "loop_top"
    /\ UNCHANGED <<running, loop_running, sched_wake, cycle_count, cycle_pc,
                   existing_files, expired_urls, retry_results, main_results,
                   submitted, cycle_outcomes, cycle_steps, cycle_ended_at,
                   signal_in_sleep, stateVars, diskVars, passVars, fetchVars, filterVars, sanitizeVars, faults, exportVars,
                   resolveVars, batchVars>>

(***************************************************************************)
(* main.py: the signal handlers                                             *)
(***************************************************************************)
\* SIGTERM or SIGINT is delivered: _signal_handler replaced the default
\* handlers (no KeyboardInterrupt is raised) and only clears self.running.
SignalHandler(signum) ==
    /\ sched_pc # "off"
    /\ running' = FALSE
    /\ signal_in_sleep' = (signal_in_sleep \/ sched_pc = "sleeping")
    /\ UNCHANGED <<loop_running, sched_pc, sched_wake, cycle_count, cycle_pc,
                   existing_files, expired_urls, retry_results, main_results,
                   submitted, cycle_outcomes, cycle_steps, cycle_ended_at,
                   stateVars, diskVars, passVars, fetchVars, filterVars, sanitizeVars, faults, exportVars,
                   resolveVars, batchVars>>

(***************************************************************************)
(* The event loop's clock                                                   *)
(***************************************************************************)
SleepingPcs == {"rl_budget_sleep", "rl_spacing_sleep", "backoff"}

Sleeping(t) == task[t].pc \in SleepingPcs

\* A coroutine the loop can run at once.
Ready(t) == task[t].pc = "rl_enter" \/ (Sleeping(t) /\ now >= task[t].wake)

\* The orchestrator itself can run at once.
BatchReady ==
    \/ batch_pc = "next"
    \/ batch_pc = "pacing" /\ now >= batch_wake
    \/ batch_pc = "gather" /\ \A t \in Tasks : task[t].pc \in {"idle", "done"}

BatchWakes == IF batch_pc = "pacing" THEN {batch_wake} ELSE {}

\* The scheduler itself can run at once.
SchedReady ==
    \/ sched_pc \in {"loop_top", "in_cycle"}
    \/ sched_pc = "sleeping" /\ now >= sched_wake

SchedWakes == IF sched_pc = "sleeping" THEN {sched_wake} ELSE {}

Wakes == {task[t].wake : t \in {u \in Tasks : Sleeping(u)}} \cup BatchWakes \cup SchedWakes

Min(S) == CHOOSE x \in S : \A y \in S : x <= y

\* Nothing is ready to run: the loop waits for the earliest timer.
Advance ==
    /\ \A t \in Tasks : ~Ready(t)
    /\ ~BatchReady
    /\ ~SchedReady
    /\ Wakes # {}
    /\ Min(Wakes) > now
    /\ now' = Min(Wakes)
    /\ UNCHANGED <<request_times, issued, retry_429_attempts, retry_503_attempts,
                   task, server, batchVars, worldVars>>

(***************************************************************************)
(* One call of unrestrict_link                                              *)
(***************************************************************************)
\* fetch_torrents is not running.
FetchIdle ==
    /\ fetch_pc = "idle"
    /\ page = 1
    /\ all_torrents = <<>>
    /\ served = <<>>

\* should_process_file is not being called.
FilterIdle ==
    /\ filter_pc = "idle"
    /\ filter_args = [filename |-> <<>>, filesize |-> 0, mime_type |-> ""]
    /\ filter_result = [should_process |-> FALSE, category |-> "none"]

\* A media disk on which every mkdir and every write_text succeeds.
NoFaults == [folders |-> {}, files |-> {}, state_files |-> {}]

\* sanitize_filename is not being called.
SanitizeIdle ==
    /\ sanitize_arg = <<>>
    /\ sanitize_out = <<>>

\* The scheduler is not part of the run: no CycleManager exists.
WorldIdle ==
    /\ running = TRUE
    /\ loop_running = TRUE
    /\ sched_pc = "off"
    /\ sched_wake = 0
    /\ cycle_count = 0
    /\ cycle_pc = "idle"
    /\ existing_files = {}
    /\ expired_urls = {}
    /\ retry_results = [processed |-> 0, succeeded |-> 0, failed |-> 0]
    /\ main_results = [kind |-> "none"]
    /\ retry_queue = <<>>
    /\ file_tracking = EmptyDict
    /\ retry_queue_file = <<>>
    /\ file_tracking_file = EmptyDict
    /\ unrestricted_file = <<>>
    /\ strm = EmptyDict
    /\ submitted = {}
    /\ cycle_outcomes = <<>>
    /\ cycle_steps = <<>>
    /\ cycle_ended_at = 0
    /\ signal_in_sleep = FALSE
    /\ remote = [torrents |-> <<>>, files |-> EmptyDict]
    /\ pass_pc = "idle"
    /\ passes = <<>>

InitResolve ==
    /\ now = 0
    /\ request_times \in {<<>>, <<0>>}
    /\ issued = request_times
    /\ retry_429_attempts \in 0..MaxRetry429
    /\ retry_503_attempts \in 0..MaxRetry503
    /\ task = [t \in Tasks |-> IF t = 1 THEN StartedTask(1) ELSE IdleTask]
    /\ server = [statuses |-> HttpStatuses, latencies |-> {0, HttpLatency},
                 raises |-> TRUE]
    /\ links = <<1>>
    /\ batch_pc = "idle"
    /\ batch_i = 0
    /\ batch_start_time = 0
    /\ batch_wake = 0
    /\ results = <<>>
    /\ WorldIdle
    /\ FetchIdle
    /\ FilterIdle
    /\ SanitizeIdle
    /\ faults = NoFaults
    /\ torrents_file = <<>>
    /\ links_file = <<>>

TaskStep(t) ==
    \/ EnforceRateLimit(t)
    \/ AfterBudgetSleep(t)
    \/ AfterSpacingSleep(t)
    \/ Respond(t)
    \/ RespondException(t)
    \/ AfterBackoff(t)

NextResolve ==
    \/ \E t \in Tasks : TaskStep(t)
    \/ Advance

SpecResolve == InitResolve /\ [][NextResolve]_vars

\* The event loop resumes every coroutine that is ready and every timer
\* that is due.
FairSpecResolve == SpecResolve /\ WF_vars(NextResolve)

(***************************************************************************)
(* unrestrict_links_batch                                                   *)
(***************************************************************************)
\* batches = [links[i:i + concurrency_limit] for i in range(0, len(links), concurrency_limit)]
NumBatches == (Len(links) + concurrency_limit - 1) \div concurrency_limit

BatchOf(i) ==
    SubSeq(links, (i - 1) * concurrency_limit + 1,
           IF i * concurrency_limit < Len(links) THEN i * concurrency_limit ELSE Len(links))

\* One iteration of the loop begins: the start time is taken and gather()
\* creates one unrestrict_link coroutine per link of the group.
StartGroup ==
    /\ batch_pc = "next"
    /\ batch_i < NumBatches
    /\ batch_i' = batch_i + 1
    /\ batch_start_time' = now
    /\ task' = [t \in Tasks |->
                  IF t <= Len(BatchOf(batch_i + 1))
                  THEN StartedTask(BatchOf(batch_i + 1)[t]) ELSE IdleTask]
    /\ batch_pc' = "gather"
    /\ UNCHANGED <<now, request_times, issued, retry_429_attempts,
                   retry_503_attempts, server, links, batch_wake, results, worldVars>>

\* A gather() that does not wait for its coroutines.
NoneAwaited == TRUE

\* "await asyncio.gather(*batch_tasks)" resumes when every coroutine of the
\* group has returned.
AllReturned == \A t \in Tasks : task[t].pc \in {"idle", "done"}

\* A gather() that hands back the successful results only.
GatherSuccesses ==
    SelectSeq([t \in 1..Len(BatchOf(batch_i)) |-> task[t].result],
              LAMBDA r : r.status = "success")

\* The results gather() returns, in the order of the group's links.  Every
\* unrestrict_link coroutine returns a dict (the rate limiter, the only code
\* outside its try block, raises nothing), so the isinstance filter keeps
\* every result.
GatherResults == [t \in 1..Len(BatchOf(batch_i)) |-> task[t].result]

\* A pause of the length of one request interval, whatever the group's size.
PacingWaitOneRequest(min_batch_time, batch_time) ==
    IF delay_between_requests - batch_time > 0
    THEN delay_between_requests - batch_time ELSE 0

\* wait_time = min_batch_time - batch_time
PacingWait(min_batch_time, batch_time) == min_batch_time - batch_time

\* gather() returned: the group's results are appended, and the loop pauses
\* when the group took less than delay_between_requests * len(batch) and
\* another group follows.
GatherDone ==
    /\ batch_pc = "gather"
    /\ AllReturned
    /\ results' = results \o GatherResults
    /\ LET batch_time == now - batch_start_time
           min_batch_time == delay_between_requests * Len(BatchOf(batch_i))
       IN IF batch_time < min_batch_time /\ batch_i < NumBatches
          THEN /\ batch_pc' = "pacing"
               /\ batch_wake' = now + PacingWait(min_batch_time, batch_time)
          ELSE /\ batch_pc' = "next"
               /\ batch_wake' = batch_wake
    /\ UNCHANGED <<now, request_times, issued, retry_429_attempts,
                   retry_503_attempts, task, server, links, batch_i, batch_start_time,
                   worldVars>>

\* The pacing sleep between two groups is over.
AfterPacing ==
    /\ batch_pc = "pacing"
    /\ now >= batch_wake
    /\ batch_pc' = "next"
    /\ UNCHANGED <<resolveVars, links, batch_i, batch_start_time, batch_wake, results,
                   worldVars>>

\* No group is left: unrestrict_links_batch returns results.
BatchReturn ==
    /\ batch_pc = "next"
    /\ batch_i = NumBatches
    /\ batch_pc' = "done"
    /\ UNCHANGED <<resolveVars, links, batch_i, batch_start_time, batch_wake, results,
                   worldVars>>

\* The servers a whole batch is explored against: one that always succeeds,
\* one that always answers 429, one that always answers 503, and one that
\* mixes successes with permanent failures and transport errors.
BatchServers ==
    {[statuses |-> {200}, latencies |-> {0}, raises |-> FALSE],
     [statuses |-> {429}, latencies |-> {0}, raises |-> FALSE],
     [statuses |-> {503}, latencies |-> {0}, raises |-> FALSE],
     [statuses |-> {200, 500}, latencies |-> {0}, raises |-> TRUE]}

InitBatch ==
    /\ now = 0
    /\ request_times \in {<<>>, <<0>>}
    /\ issued = request_times
    /\ retry_429_attempts \in 0..BatchRetryMax
    /\ retry_503_attempts \in 0..BatchRetryMax
    /\ task = [t \in Tasks |-> IdleTask]
    /\ server \in BatchServers
    /\ \E n \in 0..MaxLinks : links = [i \in 1..n |-> i]
    /\ batch_pc = "next"
    /\ batch_i = 0
    /\ batch_start_time = 0
    /\ batch_wake = 0
    /\ results = <<>>
    /\ WorldIdle
    /\ FetchIdle
    /\ FilterIdle
    /\ SanitizeIdle
    /\ faults = NoFaults
    /\ torrents_file = <<>>
    /\ links_file = <<>>

NextBatch ==
    \/ \E t \in Tasks : TaskStep(t)
    \/ Advance
    \/ StartGroup
    \/ GatherDone
    \/ AfterPacing
    \/ BatchReturn

SpecBatch == InitBatch /\ [][NextBatch]_vars

(***************************************************************************)
(* Properties of one call of unrestrict_link                                *)
(***************************************************************************)
Count(s, x) == Cardinality({i \in DOMAIN s : s[i] = x})

Only(s, x) == \A i \in DOMAIN s : s[i] = x

\* C1: a call that sees nothing but 503 responses issues exactly
\* retry_503_attempts + 1 POSTs and returns the deferred outcome
\* (retry_next_cycle / server_unavailable); no call returns that outcome
\* after fewer than retry_503_attempts + 1 responses of 503.
C1_Deferred503 ==
    \A t \in Tasks :
        /\ Only(task[t].responses, 503) => task[t].posts <= retry_503_attempts + 1
        /\ (task[t].pc = "done" /\ Only(task[t].responses, 503)) =>
              /\ task[t].posts = retry_503_attempts + 1
              /\ Len(task[t].responses) = retry_503_attempts + 1
              /\ task[t].result.status = "retry_next_cycle"
              /\ task[t].result.error = "server_unavailable"
        /\ task[t].result.status = "retry_next_cycle" =>
              Count(task[t].responses, 503) = retry_503_attempts + 1

C1_Witness ==
    /\ retry_503_attempts = 2
    /\ task[1].pc = "done"
    /\ task[1].responses = <<503, 503, 503>>
    /\ task[1].posts = 3
    /\ task[1].result.status = "retry_next_cycle"

\* C2: a call that sees nothing but 429 responses issues exactly
\* retry_429_attempts + 1 POSTs, sleeps 2^k seconds before its k-th retry
\* (2, 4, 8, ...) and returns failed_rate_limit / rate_limit_exceeded, which
\* is not the deferred outcome.
C2_RateLimit429 ==
    \A t \in Tasks :
        /\ Only(task[t].responses, 429) =>
              /\ task[t].posts <= retry_429_attempts + 1
              /\ Len(task[t].waits) <= retry_429_attempts
              /\ \A k \in DOMAIN task[t].waits : task[t].waits[k] = Pow2(k)
              /\ task[t].pc = "backoff" =>
                    task[t].wake = task[t].responded_at + Pow2(Len(task[t].waits))
        /\ (task[t].pc = "done" /\ Only(task[t].responses, 429)) =>
              /\ task[t].posts = retry_429_attempts + 1
              /\ Len(task[t].waits) = retry_429_attempts
              /\ task[t].result.status = "failed_rate_limit"
              /\ task[t].result.error = "rate_limit_exceeded"
              /\ task[t].result.status # "retry_next_cycle"

C2_Witness ==
    /\ retry_429_attempts = 3
    /\ task[1].pc = "done"
    /\ task[1].responses = <<429, 429, 429, 429>>
    /\ task[1].waits = <<2, 4, 8>>
    /\ task[1].posts = 4
    /\ task[1].result.status = "failed_rate_limit"

(***************************************************************************)
(* Properties of the rate limiter                                           *)
(***************************************************************************)
\* The recorded requests inside the 60-second window that ends at issued[i].
InWindow(i) ==
    {j \in DOMAIN issued : issued[i] - RateWindow < issued[j] /\ issued[j] <= issued[i]}

\* C9: no trailing 60-second window holds more than rate_limit_per_minute
\* recorded requests, also when the coroutines of a group interleave at the
\* sleeps of _enforce_rate_limit.
C9_WindowBudget ==
    \A i \in DOMAIN issued : Cardinality(InWindow(i)) <= rate_limit_per_minute

\* C10: any two consecutive recorded request times are at least
\* delay_between_requests apart, also when the coroutines of a group read
\* the same last request time before they sleep.
C10_Spacing ==
    \A i \in DOMAIN issued :
        i > 1 => issued[i] - issued[i - 1] >= delay_between_requests

(***************************************************************************)
(* File names.  A string is a sequence of characters; the names of the     *)
(* model hold no "%", no "@" and fewer than 100 characters, where unquote,  *)
(* the site-prefix rule and the truncation of sanitize_filename do nothing. *)
(***************************************************************************)
min_video_size_mb == 300
MiB == 1024 * 1024

allowed_video_extensions ==
    {<<".", "m", "k", "v">>,
     <<".", "m", "p", "4">>,
     <<".", "a", "v", "i">>,
     <<".", "m", "o", "v">>,
     <<".", "w", "m", "v">>,
     <<".", "m", "4", "v">>,
     <<".", "w", "e", "b", "m">>,
     <<".", "f", "l", "v">>}

allowed_subtitle_extensions ==
    {<<".", "s", "r", "t">>,
     <<".", "a", "s", "s">>,
     <<".", "v", "t", "t">>,
     <<".", "s", "u", "b">>,
     <<".", "i", "d", "x">>,
     <<".", "s", "s", "a">>,
     <<".", "s", "m", "i">>}

\* [<>:"/\\|?*]
IllegalChars == {"<", ">", ":", "\"", "/", "\\", "|", "?", "*"}

\* the characters of the model's names outside [\w\s-]
NonWordChars == IllegalChars \cup {"."}

\* str.lower() on the letters the model's names hold
Lower(s) ==
    [i \in DOMAIN s |-> CASE s[i] = "M" -> "m"
                          [] s[i] = "K" -> "k"
                          [] s[i] = "V" -> "v"
                          [] s[i] = "S" -> "s"
                          [] s[i] = "R" -> "r"
                          [] s[i] = "T" -> "t"
                          [] OTHER -> s[i]]

MapChars(s, from, to) == [i \in DOMAIN s |-> IF s[i] \in from THEN to ELSE s[i]]

RemoveChars(s, chars) == SelectSeq(s, LAMBDA c : c \notin chars)

LastDot(s) ==
    IF \E i \in DOMAIN s : s[i] = "."
    THEN CHOOSE i \in DOMAIN s : s[i] = "." /\ \A j \in DOMAIN s : s[j] = "." => j <= i
    ELSE 0

\* PurePath.suffix and PurePath.stem: the last dot counts unless it is the
\* first or the last character of the name.
Suffix(s) ==
    LET i == LastDot(s) IN IF i > 1 /\ i < Len(s) THEN SubSeq(s, i, Len(s)) ELSE <<>>

Stem(s) ==
    LET i == LastDot(s) IN IF i > 1 /\ i < Len(s) THEN SubSeq(s, 1, i - 1) ELSE s

\* re.sub(r'\.[^.]+$', '', s)
StripExtension(s) ==
    LET i == LastDot(s) IN IF i >= 1 /\ i < Len(s) THEN SubSeq(s, 1, i - 1) ELSE s

\* re.sub(r'(\.mp4|\.mkv|\.avi)$', '', s, flags=re.IGNORECASE)
StripVideoExtension(s) ==
    IF /\ Len(s) >= 4
       /\ Lower(SubSeq(s, Len(s) - 3, Len(s))) \in
              {<<".", "m", "p", "4">>, <<".", "m", "k", "v">>, <<".", "a", "v", "i">>}
    THEN SubSeq(s, 1, Len(s) - 4)
    ELSE s

\* re.sub(r'\s+', ' ', s)
RECURSIVE CollapseSpaces(_)
CollapseSpaces(s) ==
    IF Len(s) < 2 THEN s
    ELSE IF s[1] = " " /\ s[2] = " " THEN CollapseSpaces(Tail(s))
    ELSE <<s[1]>> \o CollapseSpaces(Tail(s))

\* re.sub(r'\.+$', '', s)
RECURSIVE StripTrailingDots(_)
StripTrailingDots(s) ==
    IF s # <<>> /\ s[Len(s)] = "." THEN StripTrailingDots(SubSeq(s, 1, Len(s) - 1)) ELSE s

\* str.strip()
RECURSIVE Strip(_)
Strip(s) ==
    IF s # <<>> /\ s[1] = " " THEN Strip(Tail(s))
    ELSE IF s # <<>> /\ s[Len(s)] = " " THEN Strip(SubSeq(s, 1, Len(s) - 1))
    ELSE s

sanitize_folder_name(name) ==
    IF name = <<>> THEN <<"U", "n", "k", "n", "o", "w", "n">>
    ELSE LET base == IF Lower(Suffix(name)) \in
                          (allowed_video_extensions \cup allowed_subtitle_extensions)
                     THEN Stem(name) ELSE name
             clean_name == Strip(StripTrailingDots(MapChars(base, IllegalChars, "_")))
         IN IF clean_name = <<>> THEN <<"U", "n", "k", "n", "o", "w", "n">> ELSE clean_name

sanitize_filename(name) ==
    IF name = <<>> THEN <<"u", "n", "k", "n", "o", "w", "n">>
    ELSE LET no_ext == StripVideoExtension(StripExtension(name))
             safe == MapChars(no_ext, IllegalChars, "_")
             spaced == Strip(CollapseSpaces(MapChars(safe, {".", "_", "-"}, " ")))
             clean_name == Strip(StripTrailingDots(spaced))
             fallback == Strip(RemoveChars(name, NonWordChars))
         IN IF Len(clean_name) < 3
            THEN IF fallback # <<>> THEN fallback ELSE <<"m", "e", "d", "i", "a", "_", "f", "i", "l", "e">>
            ELSE clean_name

\* any(video_type in mime_type.lower() for video_type in ['video/', 'matroska'])
MimeTypes == {"", "video/x-matroska", "text/plain"}

IsVideoMime(mime_type) == mime_type \in {"video/x-matroska"}

\* A size test that takes more than the minimum only.
ExceedsMinVideoSize(filesize) == filesize > min_video_size_mb * MiB

\* filesize_mb = filesize / (1024 * 1024) if filesize > 0 else 0, and
\* "filesize_mb >= self.min_video_size_mb": the division by a power of two
\* is exact, so the test is one on the bytes.
MeetsMinVideoSize(filesize) == filesize > 0 /\ filesize >= min_video_size_mb * MiB

\* A filter that looks at the video test before the subtitle test.
VideoTestFirst(filename, filesize, mime_type) ==
    LET file_ext == Lower(Suffix(filename))
        is_video == file_ext \in allowed_video_extensions \/ IsVideoMime(mime_type)
    IN  IF filename = <<>>
        THEN [should_process |-> FALSE, category |-> "unknown"]
        ELSE IF is_video
        THEN IF MeetsMinVideoSize(filesize)
             THEN [should_process |-> TRUE, category |-> "video"]
             ELSE [should_process |-> FALSE, category |-> "video_small"]
        ELSE IF file_ext \in allowed_subtitle_extensions
        THEN [should_process |-> TRUE, category |-> "subtitle"]
        ELSE [should_process |-> FALSE, category |-> "other"]

should_process_file(filename, filesize, mime_type) ==
    LET file_ext == Lower(Suffix(filename))
        is_video == file_ext \in allowed_video_extensions \/ IsVideoMime(mime_type)
    IN  IF filename = <<>>
        THEN [should_process |-> FALSE, category |-> "unknown"]
        ELSE IF file_ext \in allowed_subtitle_extensions
        THEN [should_process |-> TRUE, category |-> "subtitle"]
        ELSE IF is_video
        THEN IF MeetsMinVideoSize(filesize)
             THEN [should_process |-> TRUE, category |-> "video"]
             ELSE [should_process |-> FALSE, category |-> "video_small"]
        ELSE [should_process |-> FALSE, category |-> "other"]

(***************************************************************************)
(* One call of should_process_file                                          *)
(***************************************************************************)
\* The names, sizes and MIME types the filter is called with: every video
\* and subtitle extension, upper case, no extension, another extension, a
\* name that is only an extension, a name that ends in a dot, no name at
\* all; sizes around the minimum video size.
FilterNames ==
    {<<"a">> \o ext : ext \in allowed_video_extensions \cup allowed_subtitle_extensions}
    \cup {<<"a", ".", "M", "K", "V">>, <<"a", ".", "b", ".", "m", "k", "v">>,
          <<"a", ".", "S", "R", "T">>, <<"a", ".", "m", "k", "v", ".", "s", "r", "t">>,
          <<"a", ".", "m", "k", "v", ".", "t", "x", "t">>, <<"a", ".", "t", "x", "t">>,
          <<"a", "m", "k", "v">>, <<".", "m", "k", "v">>, <<"a", ".", "m", "k", "v", ".">>,
          <<>>}

FilterSizes ==
    {0 - 1, 0, 1, MiB, min_video_size_mb * MiB - MiB,
     min_video_size_mb * MiB - 1, min_video_size_mb * MiB,
     min_video_size_mb * MiB + 1, 2 * min_video_size_mb * MiB}

ShouldProcessFile ==
    /\ filter_pc = "called"
    /\ filter_result' = should_process_file(filter_args.filename, filter_args.filesize,
                                            filter_args.mime_type)
    /\ filter_pc' = "returned"
    /\ UNCHANGED <<resolveVars, batchVars, schedVars, submitted, stateVars, diskVars,
                   passVars, fetchVars, filter_args, sanitizeVars, faults, exportVars>>

InitFilter ==
    /\ now = 0
    /\ request_times = <<>>
    /\ issued = <<>>
    /\ retry_429_attempts = MaxRetry429
    /\ retry_503_attempts = MaxRetry503
    /\ task = [t \in Tasks |-> IdleTask]
    /\ server = [statuses |-> HttpStatuses, latencies |-> {0}, raises |-> TRUE]
    /\ links = <<>>
    /\ batch_pc = "idle"
    /\ batch_i = 0
    /\ batch_start_time = 0
    /\ batch_wake = 0
    /\ results = <<>>
    /\ WorldIdle
    /\ FetchIdle
    /\ filter_pc = "called"
    /\ filter_args \in [filename : FilterNames, filesize : FilterSizes,
                        mime_type : MimeTypes]
    /\ filter_result = [should_process |-> FALSE, category |-> "none"]
    /\ SanitizeIdle
    /\ faults = NoFaults
    /\ torrents_file = <<>>
    /\ links_file = <<>>

NextFilter == ShouldProcessFile

SpecFilter == InitFilter /\ [][NextFilter]_vars

(***************************************************************************)
(* sanitize_filename called on a name, then on what it returned             *)
(***************************************************************************)
\* The characters of the names: letters, the separators that become spaces,
\* a space and a character that is replaced by "_".
NameChars == {"a", "b", ".", "-", "_", " ", ":"}

RECURSIVE NamesOfLen(_)
NamesOfLen(n) ==
    IF n = 0 THEN {<<>>}
    ELSE {<<c>> \o s : c \in NameChars, s \in NamesOfLen(n - 1)}

\* Every name of up to MaxNameLen characters, alone and before ".mkv".
SanitizeNames ==
    LET stems == UNION {NamesOfLen(n) : n \in 0..MaxNameLen}
    IN  stems \cup {stem \o <<".", "m", "k", "v">> : stem \in stems}

SanitizeFilename ==
    /\ Len(sanitize_out) < 2
    /\ sanitize_out' = Append(sanitize_out,
                              sanitize_filename(IF sanitize_out = <<>> THEN sanitize_arg
                                                ELSE Last(sanitize_out)))
    /\ UNCHANGED <<resolveVars, batchVars, schedVars, submitted, stateVars, diskVars,
                   passVars, fetchVars, filterVars, sanitize_arg, faults, exportVars>>

InitSanitize ==
    /\ now = 0
    /\ request_times = <<>>
    /\ issued = <<>>
    /\ retry_429_attempts = MaxRetry429
    /\ retry_503_attempts = MaxRetry503
    /\ task = [t \in Tasks |-> IdleTask]
    /\ server = [statuses |-> HttpStatuses, latencies |-> {0}, raises |-> TRUE]
    /\ links = <<>>
    /\ batch_pc = "idle"
    /\ batch_i = 0
    /\ batch_start_time = 0
    /\ batch_wake = 0
    /\ results = <<>>
    /\ WorldIdle
    /\ FetchIdle
    /\ FilterIdle
    /\ sanitize_arg \in SanitizeNames
    /\ sanitize_out = <<>>
    /\ faults = NoFaults
    /\ torrents_file = <<>>
    /\ links_file = <<>>

NextSanitize == SanitizeFilename

SpecSanitize == InitSanitize /\ [][NextSanitize]_vars

(***************************************************************************)
(* RealDebridProcessor: grouping and pointer-file creation                  *)
(***************************************************************************)
\* An eligibility test that takes a torrent of any status.
AnyStatus(torrent) == TRUE

\* torrent.get('status') == 'downloaded'
IsDownloaded(torrent) == torrent.status = "downloaded"

HasResult(r) == r.status = "success"

\* link_to_unrestricted[link]: the last entry of the link that has a result
Unrestricted(unrestricted_data, link) ==
    LET idx == {i \in DOMAIN unrestricted_data :
                   unrestricted_data[i].link = link /\ HasResult(unrestricted_data[i])}
    IN  unrestricted_data[CHOOSE i \in idx : \A j \in idx : j <= i]

InUnrestricted(unrestricted_data, link) ==
    \E i \in DOMAIN unrestricted_data :
        unrestricted_data[i].link = link /\ HasResult(unrestricted_data[i])

\* A grouping that takes every file the filter lets through.
AcceptedNoSkip(unrestricted_data, skip_existing, existing_urls, link) ==
    /\ InUnrestricted(unrestricted_data, link)
    /\ LET u == Unrestricted(unrestricted_data, link)
       IN  /\ u.filename # <<>>
           /\ should_process_file(u.filename, u.filesize, u.mime_type).should_process

\* One torrent of _create_torrent_groups_with_skip: the files of its links
\* that have a result with download and filename, are not skipped as
\* existing and pass should_process_file, in the order of the links.
Accepted(unrestricted_data, skip_existing, existing_urls, link) ==
    /\ InUnrestricted(unrestricted_data, link)
    /\ LET u == Unrestricted(unrestricted_data, link)
       IN  /\ u.filename # <<>>
           /\ ~(skip_existing /\ u.download \in existing_urls)
           /\ should_process_file(u.filename, u.filesize, u.mime_type).should_process

GroupFiles(torrent, unrestricted_data, skip_existing, existing_urls) ==
    LET accepted == SelectSeq(torrent.links,
                        LAMBDA link : Accepted(unrestricted_data, skip_existing,
                                               existing_urls, link))
    IN  [i \in DOMAIN accepted |->
            LET u == Unrestricted(unrestricted_data, accepted[i])
            IN  [original_link |-> accepted[i],
                 download_url |-> u.download,
                 folder_name |-> sanitize_folder_name(torrent.filename),
                 sanitized_name |-> sanitize_filename(u.filename)]]

\* _create_torrent_groups_with_skip: the groups in catalog order; a torrent
\* that is not downloaded or has no accepted file has no group.  The ids of
\* the catalog are distinct.
RECURSIVE TorrentGroups(_, _, _, _)
TorrentGroups(torrents, unrestricted_data, skip_existing, existing_urls) ==
    IF torrents = <<>> THEN <<>>
    ELSE LET torrent == Head(torrents)
             files == IF IsDownloaded(torrent)
                      THEN GroupFiles(torrent, unrestricted_data, skip_existing, existing_urls)
                      ELSE <<>>
             rest == TorrentGroups(Tail(torrents), unrestricted_data,
                                   skip_existing, existing_urls)
         IN IF files = <<>> THEN rest ELSE <<files>> \o rest

\* A writer that overwrites whatever the path holds.
WriteStrmAlways(acc, file_info) ==
    [acc EXCEPT !.created = @ + 1,
                !.tree = Put(@, <<file_info.folder_name, file_info.sanitized_name>>,
                             [url |-> file_info.download_url, ctime |-> now])]

\* _create_grouped_strm_files, one file: skipped when the file exists with
\* the same URL, written otherwise; a write_text that fails is logged and
\* the file is counted neither as created nor as skipped.
WriteStrm(acc, file_info) ==
    LET strm_path == <<file_info.folder_name, file_info.sanitized_name>>
    IN  IF /\ strm_path \in DOMAIN acc.tree
           /\ acc.tree[strm_path].url = file_info.download_url
        THEN [acc EXCEPT !.skipped = @ + 1]
        ELSE IF strm_path \in faults.files
        THEN acc
        ELSE [acc EXCEPT !.created = @ + 1,
                         !.tree = Put(@, strm_path,
                                      [url |-> file_info.download_url, ctime |-> now])]

RECURSIVE WriteGroup(_, _)
WriteGroup(acc, files) ==
    IF files = <<>> THEN acc ELSE WriteGroup(WriteStrm(acc, Head(files)), Tail(files))

\* folder_path.mkdir(parents=True, exist_ok=True) stands outside every try:
\* when it fails the exception leaves _create_grouped_strm_files and the
\* groups that follow are not looked at.
RECURSIVE CreateGroupedStrmFiles(_, _)
CreateGroupedStrmFiles(acc, torrent_groups) ==
    IF torrent_groups = <<>> THEN acc
    ELSE IF Head(torrent_groups)[1].folder_name \in faults.folders
    THEN [acc EXCEPT !.raised = TRUE]
    ELSE CreateGroupedStrmFiles(WriteGroup(acc, Head(torrent_groups)), Tail(torrent_groups))

(***************************************************************************)
(* RealDebridAPIClient.process_torrents_with_grouping                       *)
(***************************************************************************)
\* step 2: the links of the downloaded torrents, in catalog order
RECURSIVE AllLinks(_)
AllLinks(torrents) ==
    IF torrents = <<>> THEN <<>>
    ELSE (IF IsDownloaded(Head(torrents)) THEN Head(torrents).links ELSE <<>>)
         \o AllLinks(Tail(torrents))

\* A selection that takes a link again unless it was resolved successfully.
NewOrFailedLinks(all_links, existing_results) ==
    SelectSeq(all_links,
              LAMBDA link : \A i \in DOMAIN existing_results :
                  existing_results[i].link = link =>
                      existing_results[i].status # "success")

\* step 4: new_links = [link for link in all_links if link not in existing_links]
NewLinks(all_links, existing_results) ==
    SelectSeq(all_links,
              LAMBDA link : \A i \in DOMAIN existing_results : existing_results[i].link # link)

\* A list that keeps the results of this run only.
NewResultsOnly(existing_results, new_results) == new_results

\* step 5: all_results = existing_results + new_results, or existing_results
\* when there is no new link; the list is then written to the file.
AllResults(existing_results, new_results) == existing_results \o new_results

\* What unrestrict_link returns for a link: on 200 the body of the response,
\* otherwise the status of the failure.
UnrestrictStatuses ==
    {"success", "failed_rate_limit", "retry_next_cycle", "failed_other", "exception"}

ResultEntry(link, status) ==
    IF status = "success"
    THEN [link |-> link, status |-> status, download |-> DirectUrl(link),
          filename |-> remote.files[link].filename,
          filesize |-> remote.files[link].filesize,
          mime_type |-> remote.files[link].mime_type]
    ELSE [link |-> link, status |-> status]

(***************************************************************************)
(* The scheduler: main.py runs run_scheduler under asyncio.run              *)
(***************************************************************************)
\* The account of the scheduler runs: two downloaded torrents of one file.
FileInfo(filename, filesize, mime_type) ==
    [filename |-> filename, filesize |-> filesize, mime_type |-> mime_type]

SchedRemote ==
    [torrents |-> <<[id |-> 1, status |-> "downloaded",
                     filename |-> <<"t", "1", ".", "m", "k", "v">>, links |-> <<1>>],
                    [id |-> 2, status |-> "downloaded",
                     filename |-> <<"t", "2">>, links |-> <<2>>]>>,
     files |-> <<FileInfo(<<"a", "b", ".", "c", "d", ".", "m", "k", "v">>, min_video_size_mb * MiB, ""),
                 FileInfo(<<"x", "y", "z", ".", "s", "r", "t">>, 0, "text/plain")>>]

\* The pointer file an earlier run wrote for a link.
PathOf(link) ==
    <<sanitize_folder_name(SchedRemote.torrents[link].filename),
      sanitize_filename(SchedRemote.files[link].filename)>>

Paths == {PathOf(1), PathOf(2)}

\* The link whose download URL the pointer file at a path holds.
LinkOf(path) == IF path = PathOf(1) THEN 1 ELSE 2

\* The creation times of the pointer files found at start-up: older than
\* the expiry, exactly file_expiry_days old, and new.
CTimes == {0 - (file_expiry_days + 1) * Day, 0 - file_expiry_days * Day, 0}

Trees ==
    UNION {[S -> CTimes] : S \in SUBSET Paths}

SuccessEntry(link) ==
    [link |-> link, status |-> "success", download |-> DirectUrl(link),
     filename |-> SchedRemote.files[link].filename,
     filesize |-> SchedRemote.files[link].filesize,
     mime_type |-> SchedRemote.files[link].mime_type]

RECURSIVE SeqOf(_)
SeqOf(S) ==
    IF S = {} THEN <<>>
    ELSE LET x == CHOOSE y \in S : \A z \in S : y <= z
         IN <<x>> \o SeqOf(S \ {x})

QueueItem(link) == [link |-> link, retry_count |-> 0]

Init ==
    /\ now = 0
    /\ request_times = <<>>
    /\ issued = <<>>
    /\ retry_429_attempts = MaxRetry429
    /\ retry_503_attempts = MaxRetry503
    /\ task = [t \in Tasks |-> IdleTask]
    /\ server = [statuses |-> HttpStatuses, latencies |-> {0}, raises |-> TRUE]
    /\ links = <<>>
    /\ batch_pc = "idle"
    /\ batch_i = 0
    /\ batch_start_time = 0
    /\ batch_wake = 0
    /\ results = <<>>
    /\ running = TRUE
    /\ loop_running = TRUE
    /\ sched_pc = "loop_top"
    /\ sched_wake = 0
    /\ cycle_count = 0
    /\ cycle_pc = "idle"
    /\ existing_files = {}
    /\ expired_urls = {}
    /\ retry_results = [processed |-> 0, succeeded |-> 0, failed |-> 0]
    /\ main_results = [kind |-> "none"]
    \* the pointer files an earlier run left, and their resolved links
    /\ \E tree \in Trees :
          /\ strm = [p \in DOMAIN tree |->
                        [url |-> DirectUrl(LinkOf(p)), ctime |-> tree[p]]]
          /\ unrestricted_file =
                 [i \in 1..Cardinality(DOMAIN tree) |->
                     SuccessEntry(SeqOf({LinkOf(p) : p \in DOMAIN tree})[i])]
    \* CycleManager.__init__ loads both state files
    /\ retry_queue_file \in {<<>>, <<QueueItem(1)>>, <<QueueItem(1), QueueItem(2)>>}
    /\ retry_queue = retry_queue_file
    /\ file_tracking_file \in
          {EmptyDict,
           Put(EmptyDict, FileKey(PathOf(1)),
               [created_at |-> 0 - (file_expiry_days + 1) * Day, url |-> DirectUrl(1)]),
           \* the entry an earlier run wrote when it drained its queue
           Put(EmptyDict, RetryKey(1),
               [created_at |-> 0 - (file_expiry_days + 1) * Day, url |-> 2])}
    /\ file_tracking = file_tracking_file
    /\ submitted = {}
    /\ cycle_outcomes = <<>>
    /\ cycle_steps = <<>>
    /\ cycle_ended_at = 0
    /\ signal_in_sleep = FALSE
    /\ remote = SchedRemote
    /\ pass_pc = "idle"
    /\ passes = <<>>
    /\ FetchIdle
    /\ FilterIdle
    /\ SanitizeIdle
    /\ faults = NoFaults
    /\ torrents_file = <<>>
    /\ links_file = <<>>

SchedNext ==
    \/ CycleStart
    \/ ScanStrmFiles
    \/ CheckExpiredFiles
    \/ ProcessRetryQueue
    \/ ProcessAndFinish
    \/ AfterCycleSleep
    \/ Advance

Next ==
    \/ SchedNext
    \/ \E signum \in {2, 15} : SignalHandler(signum)

Spec == Init /\ [][Next]_vars

\* The state files that cannot be written during a run.
StateFiles == {"retry_queue", "file_tracking"}

SaveFaults ==
    {[folders |-> {}, files |-> {}, state_files |-> S] : S \in (SUBSET StateFiles) \ {{}}}

\* The scheduler on a disk where saving a state file fails.
InitSaveFaults ==
    /\ now = 0
    /\ request_times = <<>>
    /\ issued = <<>>
    /\ retry_429_attempts = MaxRetry429
    /\ retry_503_attempts = MaxRetry503
    /\ task = [t \in Tasks |-> IdleTask]
    /\ server = [statuses |-> HttpStatuses, latencies |-> {0}, raises |-> TRUE]
    /\ links = <<>>
    /\ batch_pc = "idle"
    /\ batch_i = 0
    /\ batch_start_time = 0
    /\ batch_wake = 0
    /\ results = <<>>
    /\ running = TRUE
    /\ loop_running = TRUE
    /\ sched_pc = "loop_top"
    /\ sched_wake = 0
    /\ cycle_count = 0
    /\ cycle_pc = "idle"
    /\ existing_files = {}
    /\ expired_urls = {}
    /\ retry_results = [processed |-> 0, succeeded |-> 0, failed |-> 0]
    /\ main_results = [kind |-> "none"]
    \* the pointer files an earlier run left, and their resolved links
    /\ \E tree \in Trees :
          /\ strm = [p \in DOMAIN tree |->
                        [url |-> DirectUrl(LinkOf(p)), ctime |-> tree[p]]]
          /\ unrestricted_file =
                 [i \in 1..Cardinality(DOMAIN tree) |->
                     SuccessEntry(SeqOf({LinkOf(p) : p \in DOMAIN tree})[i])]
    \* CycleManager.__init__ loads both state files
    /\ retry_queue_file \in {<<>>, <<QueueItem(1)>>, <<QueueItem(1), QueueItem(2)>>}
    /\ retry_queue = retry_queue_file
    /\ file_tracking_file \in
          {EmptyDict,
           Put(EmptyDict, FileKey(PathOf(1)),
               [created_at |-> 0 - (file_expiry_days + 1) * Day, url |-> DirectUrl(1)]),
           \* the entry an earlier run wrote when it drained its queue
           Put(EmptyDict, RetryKey(1),
               [created_at |-> 0 - (file_expiry_days + 1) * Day, url |-> 2])}
    /\ file_tracking = file_tracking_file
    /\ submitted = {}
    /\ cycle_outcomes = <<>>
    /\ cycle_steps = <<>>
    /\ cycle_ended_at = 0
    /\ signal_in_sleep = FALSE
    /\ remote = SchedRemote
    /\ pass_pc = "idle"
    /\ passes = <<>>
    /\ FetchIdle
    /\ FilterIdle
    /\ SanitizeIdle
    /\ faults \in SaveFaults
    /\ torrents_file = <<>>
    /\ links_file = <<>>

SpecSaveFaults == InitSaveFaults /\ [][Next]_vars

\* The event loop runs every ready callback and every timer that is due.
FairSpec == Spec /\ WF_vars(SchedNext)

(***************************************************************************)
(* The scheduler, with pointer files that are rewritten between two cycles  *)
(***************************************************************************)
\* The download URL a later resolution of the same link hands out.
RefreshedUrl(url) == url + 100

\* _create_grouped_strm_files run by another process while the scheduler
\* sleeps finds another URL stored and overwrites the pointer file.
RefreshPointerFile ==
    /\ sched_pc = "sleeping"
    /\ \E p \in DOMAIN strm :
          /\ strm[p].url = DirectUrl(LinkOf(p))
          /\ strm' = Put(strm, p, [url |-> RefreshedUrl(strm[p].url), ctime |-> now])
    /\ UNCHANGED <<resolveVars, batchVars, schedVars, submitted, stateVars,
                   unrestricted_file, passVars, fetchVars, filterVars, sanitizeVars,
                   faults, exportVars>>

NextRefresh ==
    \/ Next
    \/ RefreshPointerFile

SpecRefresh == Init /\ [][NextRefresh]_vars

(***************************************************************************)
(* process_from_api called where no event loop runs: run_real_debrid_sync   *)
(* drives process_torrents_with_grouping to its end, then the processor     *)
(* groups the files and writes the pointer files.                           *)
(***************************************************************************)
PassLinks == 1..MaxPassLinks

\* The files the links of an account may stand for.
FileInfos ==
    {FileInfo(<<"a", "b", ".", "c", "d", ".", "m", "k", "v">>, min_video_size_mb * MiB, ""),
     FileInfo(<<"a", "b", "_", "c", "d", ".", "m", "k", "v">>, min_video_size_mb * MiB, ""),
     FileInfo(<<"x", "y", ".", "s", "r", "t">>, 0, "text/plain"),
     FileInfo(<<"a", "b", ".", "c", "d", ".", "m", "k", "v">>, min_video_size_mb * MiB - 1, "video/x-matroska")}

TorrentStatuses == {"downloaded", "downloading"}

\* The first torrent holds links 1 and 2, the second one the others.
Catalog(status1, status2) ==
    <<[id |-> 1, status |-> status1, filename |-> <<"t", "1", ".", "m", "k", "v">>,
       links |-> SeqOf({l \in PassLinks : l <= 2})],
      [id |-> 2, status |-> status2, filename |-> <<"t", "2">>,
       links |-> SeqOf({l \in PassLinks : l > 2})]>>

PassResult(success, created, skipped, deferred) ==
    [success |-> success, created |-> created, skipped |-> skipped,
     deferred |-> deferred]

\* A pipeline that goes on with an empty catalog.
NeverStops(torrents) == FALSE

\* "if not torrents: return {"success": False, "error": "No torrents found"}"
NoTorrents(torrents) == torrents = <<>>

\* step 6: realdebrid_links.txt holds the download URL of every result that
\* has one.
LinksExport(all_results) ==
    LET valid == SelectSeq(all_results, LAMBDA r : r.status = "success")
    IN [i \in DOMAIN valid |-> valid[i].download]

\* steps 1 to 4 of process_torrents_with_grouping: fetch the catalog, stop
\* with a failure when it is empty, collect the links, keep the new ones.
PassFetch ==
    /\ pass_pc = "start"
    /\ ~loop_running
    /\ results' = <<>>
    /\ IF NoTorrents(remote.torrents)
       THEN /\ links' = <<>>
            /\ passes' = Append(passes, PassResult(FALSE, 0, 0, {}))
            /\ pass_pc' = "done"
            /\ torrents_file' = torrents_file
       ELSE /\ links' = NewLinks(AllLinks(remote.torrents), unrestricted_file)
            /\ passes' = passes
            /\ pass_pc' = "resolve"
            \* json.dump(torrents, f) to realdebrid_torrents.json
            /\ torrents_file' = remote.torrents
    /\ submitted' = {links'[i] : i \in DOMAIN links'}
    /\ UNCHANGED <<resolveVars, batch_pc, batch_i, batch_start_time, batch_wake,
                   schedVars, stateVars, diskVars, remote, fetchVars, filterVars,
                   sanitizeVars, faults, links_file>>

\* step 5: unrestrict_links_batch returns one result per new link, and the
\* old and the new results are saved to realdebrid_unrestricted.json.
PassResolve ==
    /\ pass_pc = "resolve"
    /\ \E status \in [DOMAIN links -> UnrestrictStatuses] :
          results' = [i \in DOMAIN links |-> ResultEntry(links[i], status[i])]
    /\ unrestricted_file' = AllResults(unrestricted_file, results')
    /\ links_file' = LinksExport(unrestricted_file')
    /\ pass_pc' = "group"
    /\ UNCHANGED <<resolveVars, links, batch_pc, batch_i, batch_start_time, batch_wake,
                   schedVars, submitted, stateVars, strm, remote, passes, fetchVars,
                   filterVars, sanitizeVars, faults, torrents_file>>

\* The summary of process_from_api tells how it was called: skip_stats and
\* total_files; the skip set is kept with it.
SkipStats(skip_existing, existing_urls, total_files) ==
    [skip_existing |-> skip_existing, existing_urls |-> existing_urls,
     total_files |-> total_files]

RECURSIVE TotalFiles(_)
TotalFiles(torrent_groups) ==
    IF torrent_groups = <<>> THEN 0
    ELSE Len(Head(torrent_groups)) + TotalFiles(Tail(torrent_groups))

\* A run that empties the folder before it writes.
ClearedDir(tree) == EmptyDict

\* unorganized_dir.mkdir(parents=True, exist_ok=True): the folder is kept as
\* it is, with the pointer files earlier runs wrote.
UnorganizedDir(tree) == tree

\* process_from_api steps 2 to 4: grouping, pointer files, summary.  A
\* caller that skips passes the URLs of the pointer files less the expired
\* ones, as run_cycle does: existing_urls = existing_files - expired_urls.
PassReconcile ==
    /\ pass_pc = "group"
    /\ \E skip_existing \in BOOLEAN, expired \in SUBSET ExistingUrls :
          LET existing_urls == IF skip_existing THEN ExistingUrls \ expired ELSE {}
              torrent_groups == TorrentGroups(remote.torrents, unrestricted_file,
                                              skip_existing, existing_urls)
              strm_results == CreateGroupedStrmFiles(
                                  [tree |-> UnorganizedDir(strm), created |-> 0,
                                   skipped |-> 0,
                                   raised |-> FALSE],
                                  torrent_groups)
              deferred == {results[i].link : i \in
                              {j \in DOMAIN results :
                                  results[j].status = "retry_next_cycle"}}
          IN  /\ skip_existing \/ expired = {}
              /\ strm' = strm_results.tree
              \* "except Exception as e: return {"success": False, ...}"
              /\ passes' = Append(passes,
                     IF strm_results.raised
                     THEN PassResult(FALSE, 0, 0, deferred)
                     ELSE PassResult(TRUE, strm_results.created, strm_results.skipped,
                                     deferred)
                          @@ SkipStats(skip_existing, existing_urls,
                                       TotalFiles(torrent_groups)))
    /\ pass_pc' = "done"
    /\ UNCHANGED <<resolveVars, batchVars, schedVars, submitted, stateVars,
                   unrestricted_file, remote, fetchVars, filterVars, sanitizeVars, faults, exportVars>>

\* The same call once more at a later time, the account unchanged.
PassAgain ==
    /\ pass_pc = "done"
    /\ Len(passes) < MaxPasses
    /\ pass_pc' = "start"
    /\ now' = now + 1
    /\ UNCHANGED <<request_times, retry_429_attempts, retry_503_attempts, task, issued,
                   server, batchVars, schedVars, submitted, stateVars, diskVars,
                   remote, passes, fetchVars, filterVars, sanitizeVars, faults, exportVars>>

InitPass ==
    /\ now = 0
    /\ request_times = <<>>
    /\ issued = <<>>
    /\ retry_429_attempts = MaxRetry429
    /\ retry_503_attempts = MaxRetry503
    /\ task = [t \in Tasks |-> IdleTask]
    /\ server = [statuses |-> HttpStatuses, latencies |-> {0}, raises |-> TRUE]
    /\ links = <<>>
    /\ batch_pc = "idle"
    /\ batch_i = 0
    /\ batch_start_time = 0
    /\ batch_wake = 0
    /\ results = <<>>
    /\ running = TRUE
    /\ loop_running = FALSE
    /\ sched_pc = "off"
    /\ sched_wake = 0
    /\ cycle_count = 0
    /\ cycle_pc = "idle"
    /\ existing_files = {}
    /\ expired_urls = {}
    /\ retry_results = [processed |-> 0, succeeded |-> 0, failed |-> 0]
    /\ main_results = [kind |-> "none"]
    /\ retry_queue = <<>>
    /\ retry_queue_file = <<>>
    /\ file_tracking = EmptyDict
    /\ file_tracking_file = EmptyDict
    /\ \E files \in [PassLinks -> FileInfos] :
          \/ \E status1, status2 \in TorrentStatuses :
                remote = [torrents |-> Catalog(status1, status2), files |-> files]
          \/ remote = [torrents |-> <<>>, files |-> files]
    /\ unrestricted_file \in {<<>>, <<[link |-> 1, status |-> "retry_next_cycle"]>>,
                              <<ResultEntry(1, "success")>>}
    /\ strm = EmptyDict
    /\ submitted = {}
    /\ cycle_outcomes = <<>>
    /\ cycle_steps = <<>>
    /\ cycle_ended_at = 0
    /\ signal_in_sleep = FALSE
    /\ pass_pc = "start"
    /\ passes = <<>>
    /\ FetchIdle
    /\ FilterIdle
    /\ SanitizeIdle
    /\ faults = NoFaults
    /\ torrents_file = <<>>
    /\ links_file = <<>>

NextPass ==
    \/ PassFetch
    \/ PassResolve
    \/ PassReconcile
    \/ PassAgain

SpecPass == InitPass /\ [][NextPass]_vars

(***************************************************************************)
(* The same call on an account that changes between two passes              *)
(***************************************************************************)
\* The catalogs an account may show later: a torrent is being downloaded
\* again, a torrent has left the catalog, all have.
LaterCatalogs ==
    {Catalog("downloading", "downloaded"),
     SubSeq(Catalog("downloaded", "downloaded"), 2, 2),
     <<>>}

\* Between two passes the catalog the service returns changes.
CatalogChanges ==
    /\ pass_pc = "done"
    /\ Len(passes) < MaxPasses
    /\ \E torrents \in LaterCatalogs :
          /\ torrents # remote.torrents
          /\ remote' = [remote EXCEPT !.torrents = torrents]
    /\ UNCHANGED <<resolveVars, batchVars, schedVars, submitted, stateVars, diskVars,
                   pass_pc, passes, fetchVars, filterVars, sanitizeVars, faults, exportVars>>

\* An account whose two torrents are downloaded, with nothing resolved yet.
InitChurn ==
    /\ InitPass
    /\ remote.torrents = Catalog("downloaded", "downloaded")
    /\ remote.files \in [PassLinks -> {FileInfo(<<"a", "b", ".", "c", "d", ".", "m", "k", "v">>,
                                                  min_video_size_mb * MiB, ""),
                                         FileInfo(<<"x", "y", ".", "s", "r", "t">>, 0,
                                                  "text/plain")}]
    /\ unrestricted_file = <<>>

NextChurn ==
    \/ NextPass
    \/ CatalogChanges

SpecChurn == InitChurn /\ [][NextChurn]_vars

(***************************************************************************)
(* The same call with unrestrict_links_batch run step by step: the groups,  *)
(* the coroutines of a group and their sleeps                               *)
(***************************************************************************)
\* The servers the pipeline is explored against: one that always succeeds,
\* one that always answers 503, so that every call is retried, and one that
\* cannot be connected to.
PipelineServers ==
    {[statuses |-> {200}, latencies |-> {0}, raises |-> FALSE],
     [statuses |-> {503}, latencies |-> {0}, raises |-> FALSE],
     [statuses |-> {}, latencies |-> {0}, raises |-> TRUE]}

\* One link more than a group takes.
PipelineLinks == concurrency_limit + 1

\* The file a link stands for: videos, and a subtitle for link 2.
PipelineFile(link) ==
    IF link = 2 THEN FileInfo(<<"x", "y", ".", "s", "r", "t">>, 0, "text/plain")
    ELSE FileInfo(<<"a", "b", ".", "c", "d", ".", "m", "k", "v">>, min_video_size_mb * MiB, "")

\* The first torrent holds link 1, the second one the others: more links
\* than one group takes.
PipelineCatalog(status2) ==
    <<[id |-> 1, status |-> "downloaded", filename |-> <<"t", "1", ".", "m", "k", "v">>,
       links |-> <<1>>],
      [id |-> 2, status |-> status2, filename |-> <<"t", "2">>,
       links |-> [i \in 1..(PipelineLinks - 1) |-> i + 1]]>>

\* A pipeline that goes on once the groups have been started.
ResolveStarted == batch_pc # "idle"

\* "new_results = await self.unrestrict_links_batch(new_links)": the
\* pipeline goes on when the batch has returned.
ResolveAwaited == batch_pc = "done"

\* step 5, "if new_links:": unrestrict_links_batch is called.
PipeResolveStart ==
    /\ pass_pc = "resolve"
    /\ links # <<>>
    /\ pass_pc' = "resolving"
    /\ batch_pc' = "next"
    /\ batch_i' = 0
    /\ results' = <<>>
    /\ UNCHANGED <<resolveVars, links, batch_start_time, batch_wake, schedVars, submitted, stateVars, diskVars,
                   remote, passes, fetchVars, filterVars, sanitizeVars, faults, exportVars>>

\* step 5: all_results = existing_results + new_results (or the existing
\* ones when no link is new) is saved to realdebrid_unrestricted.json.
PipeResolveSave ==
    /\ \/ pass_pc = "resolving" /\ ResolveAwaited
       \/ pass_pc = "resolve" /\ links = <<>>
    /\ unrestricted_file' =
          AllResults(unrestricted_file,
                     [i \in DOMAIN results |->
                         ResultEntry(results[i].link, results[i].status)])
    /\ links_file' = LinksExport(unrestricted_file')
    /\ pass_pc' = "group"
    /\ batch_pc' = "idle"
    /\ UNCHANGED <<resolveVars, links, batch_i, batch_start_time, batch_wake, results,
                   schedVars, submitted, stateVars, strm, remote, passes, fetchVars,
                   filterVars, sanitizeVars, faults, torrents_file>>

InitPipeline ==
    /\ now = 0
    /\ request_times = <<>>
    /\ issued = <<>>
    /\ retry_429_attempts = BatchRetryMax
    /\ retry_503_attempts = BatchRetryMax
    /\ task = [t \in Tasks |-> IdleTask]
    /\ server \in PipelineServers
    /\ links = <<>>
    /\ batch_pc = "idle"
    /\ batch_i = 0
    /\ batch_start_time = 0
    /\ batch_wake = 0
    /\ results = <<>>
    /\ running = TRUE
    /\ loop_running = FALSE
    /\ sched_pc = "off"
    /\ sched_wake = 0
    /\ cycle_count = 0
    /\ cycle_pc = "idle"
    /\ existing_files = {}
    /\ expired_urls = {}
    /\ retry_results = [processed |-> 0, succeeded |-> 0, failed |-> 0]
    /\ main_results = [kind |-> "none"]
    /\ retry_queue = <<>>
    /\ retry_queue_file = <<>>
    /\ file_tracking = EmptyDict
    /\ file_tracking_file = EmptyDict
    /\ \E status2 \in TorrentStatuses :
          remote = [torrents |-> PipelineCatalog(status2),
                    files |-> [l \in 1..PipelineLinks |-> PipelineFile(l)]]
    /\ unrestricted_file \in {<<>>, <<ResultEntry(1, "success")>>}
    /\ strm = EmptyDict
    /\ submitted = {}
    /\ cycle_outcomes = <<>>
    /\ cycle_steps = <<>>
    /\ cycle_ended_at = 0
    /\ signal_in_sleep = FALSE
    /\ pass_pc = "start"
    /\ passes = <<>>
    /\ FetchIdle
    /\ FilterIdle
    /\ SanitizeIdle
    /\ faults = NoFaults
    /\ torrents_file = <<>>
    /\ links_file = <<>>

NextPipeline ==
    \/ PassFetch
    \/ PipeResolveStart
    \/ \E t \in Tasks : TaskStep(t)
    \/ Advance
    \/ StartGroup
    \/ GatherDone
    \/ AfterPacing
    \/ BatchReturn
    \/ PipeResolveSave
    \/ PassReconcile
    \/ PassAgain

SpecPipeline == InitPipeline /\ [][NextPipeline]_vars

(***************************************************************************)
(* The same call on a media disk where one mkdir or one write_text fails    *)
(***************************************************************************)
\* The first torrent holds link 1, the second one the others.
SplitCatalog ==
    <<[id |-> 1, status |-> "downloaded", filename |-> <<"t", "1", ".", "m", "k", "v">>,
       links |-> <<1>>],
      [id |-> 2, status |-> "downloaded", filename |-> <<"t", "2">>,
       links |-> SeqOf({l \in PassLinks : l > 1})]>>

\* The folders and the pointer files of the catalogs above.
FaultFolders == {sanitize_folder_name(SplitCatalog[i].filename) : i \in 1..2}

FaultFiles ==
    {<<folder, sanitize_filename(f.filename)>> : folder \in FaultFolders, f \in FileInfos}

\* One folder that cannot be created, or one file that cannot be written.
DiskFaults ==
    {[folders |-> {folder}, files |-> {}, state_files |-> {}] : folder \in FaultFolders}
    \cup {[folders |-> {}, files |-> {path}, state_files |-> {}] : path \in FaultFiles}

InitFaulty ==
    /\ now = 0
    /\ request_times = <<>>
    /\ issued = <<>>
    /\ retry_429_attempts = MaxRetry429
    /\ retry_503_attempts = MaxRetry503
    /\ task = [t \in Tasks |-> IdleTask]
    /\ server = [statuses |-> HttpStatuses, latencies |-> {0}, raises |-> TRUE]
    /\ links = <<>>
    /\ batch_pc = "idle"
    /\ batch_i = 0
    /\ batch_start_time = 0
    /\ batch_wake = 0
    /\ results = <<>>
    /\ running = TRUE
    /\ loop_running = FALSE
    /\ sched_pc = "off"
    /\ sched_wake = 0
    /\ cycle_count = 0
    /\ cycle_pc = "idle"
    /\ existing_files = {}
    /\ expired_urls = {}
    /\ retry_results = [processed |-> 0, succeeded |-> 0, failed |-> 0]
    /\ main_results = [kind |-> "none"]
    /\ retry_queue = <<>>
    /\ retry_queue_file = <<>>
    /\ file_tracking = EmptyDict
    /\ file_tracking_file = EmptyDict
    /\ \E files \in [PassLinks -> FileInfos] :
          \E torrents \in {Catalog("downloaded", "downloaded"), SplitCatalog} :
              remote = [torrents |-> torrents, files |-> files]
    /\ unrestricted_file = <<>>
    /\ strm = EmptyDict
    /\ submitted = {}
    /\ cycle_outcomes = <<>>
    /\ cycle_steps = <<>>
    /\ cycle_ended_at = 0
    /\ signal_in_sleep = FALSE
    /\ pass_pc = "start"
    /\ passes = <<>>
    /\ FetchIdle
    /\ FilterIdle
    /\ SanitizeIdle
    /\ faults \in DiskFaults
    /\ torrents_file = <<>>
    /\ links_file = <<>>

SpecFaulty == InitFaulty /\ [][NextPass]_vars

(***************************************************************************)
(* RealDebridAPIClient.fetch_torrents                                       *)
(***************************************************************************)
\* _enforce_rate_limit run by the only coroutine there is, its sleeps
\* included: the pruned list and the time that is appended to it.
SequentialRateLimit(times, current_time) ==
    LET rt == Prune(times, current_time)
        budget_sleep == /\ Len(rt) >= rate_limit_per_minute
                        /\ RateWindow - (current_time - rt[1]) > 0
        t1 == IF budget_sleep THEN current_time + (RateWindow - (current_time - rt[1]))
              ELSE current_time
        rt1 == IF budget_sleep THEN Prune(rt, t1) ELSE rt
        t2 == IF rt1 # <<>> /\ t1 - Last(rt1) < delay_between_requests
              THEN t1 + (delay_between_requests - (t1 - Last(rt1)))
              ELSE t1
    IN  [times |-> rt1, at |-> t2]

\* What a page request may meet: 200, 404, another status, or (0) an
\* exception raised by the request or by reading its body.
FetchStatuses == {200, 404, 500, 0}

\* The torrents a page returns: numbered over the pages, of any status.
PageData(p, statuses) ==
    [i \in DOMAIN statuses |-> [id |-> (p - 1) * limit + i, status |-> statuses[i]]]

\* A page test that stops at an empty page only.
IsEmptyPage(data) == Len(data) = 0

\* "if len(data) < limit": the last page
IsLastPage(data) == Len(data) < limit

\* A ceiling that is never reached.
NoCeiling(p) == FALSE

\* "if page > 1000": the safety ceiling
ReachedCeiling(p) == p > max_pages

\* A pagination that asks for the page again after an error status.
FetchErrorRetry == "request"

\* "else: ... break" and "except Exception: return all_torrents": an error
\* status or an exception ends the pagination.
FetchErrorBreak == "returned"

\* The branches on the response to the request of one page.
OnPage(status, data) ==
    IF status = 200 /\ data # <<>>
    THEN /\ all_torrents' = all_torrents \o data
         /\ IF IsLastPage(data)
            THEN page' = page /\ fetch_pc' = "returned"
            ELSE /\ page' = page + 1
                 /\ fetch_pc' = IF ReachedCeiling(page + 1) THEN "returned" ELSE "request"
    ELSE /\ all_torrents' = all_torrents
         /\ page' = page
         /\ fetch_pc' = IF status \in {200, 404} THEN "returned" ELSE FetchErrorBreak

\* One iteration of "while True": the rate limiter, the GET of the page and
\* the handling of its response.
FetchPage ==
    /\ fetch_pc = "request"
    /\ LET rl == SequentialRateLimit(request_times, now)
       IN  /\ request_times' = Append(rl.times, rl.at)
           /\ issued' = Append(issued, rl.at)
           /\ now' = rl.at
    /\ \E status \in FetchStatuses, n \in 0..limit :
          \E statuses \in [1..n -> TorrentStatuses] :
              /\ status # 200 => n = 0
              /\ served' = Append(served, [status |-> status,
                                           data |-> PageData(page, statuses)])
              /\ OnPage(status, PageData(page, statuses))
    /\ UNCHANGED <<retry_429_attempts, retry_503_attempts, task, server, batchVars,
                   schedVars, submitted, stateVars, diskVars, passVars, filterVars, sanitizeVars, faults, exportVars>>

\* process_torrents_with_grouping, "if not torrents": an empty result is a
\* failure, any other result goes on to step 2.
FetchCaller ==
    /\ fetch_pc = "returned"
    /\ fetch_pc' = IF all_torrents = <<>> THEN "no_torrents" ELSE "collect"
    /\ UNCHANGED <<resolveVars, batchVars, schedVars, submitted, stateVars, diskVars,
                   passVars, page, all_torrents, served, filterVars, sanitizeVars, faults, exportVars>>

InitFetch ==
    /\ now = 0
    /\ request_times \in {<<>>, <<0>>}
    /\ issued = request_times
    /\ retry_429_attempts = MaxRetry429
    /\ retry_503_attempts = MaxRetry503
    /\ task = [t \in Tasks |-> IdleTask]
    /\ server = [statuses |-> HttpStatuses, latencies |-> {0}, raises |-> TRUE]
    /\ links = <<>>
    /\ batch_pc = "idle"
    /\ batch_i = 0
    /\ batch_start_time = 0
    /\ batch_wake = 0
    /\ results = <<>>
    /\ WorldIdle
    /\ fetch_pc = "request"
    /\ page = 1
    /\ all_torrents = <<>>
    /\ served = <<>>
    /\ FilterIdle
    /\ SanitizeIdle
    /\ faults = NoFaults
    /\ torrents_file = <<>>
    /\ links_file = <<>>

NextFetch ==
    \/ FetchPage
    \/ FetchCaller

SpecFetch == InitFetch /\ [][NextFetch]_vars

\* The event loop resumes the coroutine after every await.
FairSpecFetch == SpecFetch /\ WF_vars(NextFetch)

(***************************************************************************)
(* Properties of the cycle and the scheduler                                *)
(***************************************************************************)
CycleEnded == sched_pc = "sleeping" /\ cycle_count >= 1

\* C4: in a cycle that finds a tracked pointer file expired, the source link
\* of its URL is handed to the resolver again, although the URL is the
\* content of an existing pointer file and the link has a successful entry
\* in realdebrid_unrestricted.json.
C4_ExpiredResubmitted ==
    CycleEnded =>
        \A p \in DOMAIN strm :
            (/\ FileKey(p) \in DOMAIN file_tracking
             /\ file_tracking[FileKey(p)].url = strm[p].url
             /\ strm[p].url \in expired_urls) =>
                \A i \in DOMAIN unrestricted_file :
                    (/\ unrestricted_file[i].status = "success"
                     /\ unrestricted_file[i].download = strm[p].url) =>
                        unrestricted_file[i].link \in submitted

\* C6: once a stop signal has arrived during an inter-cycle sleep, no
\* further cycle is started.
C6_StopEndsLoop == signal_in_sleep => sched_pc # "in_cycle"

\* C7: a cycle that raises never ends the scheduler: the scheduler sleeps
\* the full cycle_interval after it and then starts the next cycle, however
\* many cycles in a row fail.
C7_Safety ==
    /\ sched_pc \in {"loop_top", "in_cycle", "sleeping"}
    /\ \A n \in DOMAIN cycle_outcomes :
          (cycle_outcomes[n] = "raised" /\ n = cycle_count) =>
              /\ sched_pc \in {"sleeping", "loop_top"}
              /\ sched_wake = cycle_ended_at + cycle_interval
              /\ sched_pc = "loop_top" => now >= cycle_ended_at + cycle_interval
    /\ (sched_pc = "in_cycle" /\ cycle_count > 1) =>
          now >= cycle_ended_at + cycle_interval

C7_SchedulerSurvivesErrors ==
    /\ []C7_Safety
    /\ \A n \in 1..(MaxCycles - 1) :
          (cycle_count = n /\ Len(cycle_outcomes) = n /\ cycle_outcomes[n] = "raised")
              ~> (cycle_count = n + 1 /\ sched_pc = "in_cycle")

C7_Witness ==
    /\ cycle_outcomes = <<"raised", "raised", "running">>
    /\ sched_pc = "in_cycle"
    /\ now = 2 * cycle_interval

\* C8: a cycle without any remote or filesystem failure performs scan,
\* expiry check, retry-queue drain, processing and the final save of the
\* tracking file in this order, and returns its summary without raising.
C8_CycleCompletes ==
    CycleEnded =>
        /\ cycle_outcomes[cycle_count] = "summary"
        /\ cycle_steps = <<"scan", "expiry", "retry", "process", "save_tracking">>
        /\ file_tracking_file = file_tracking

(***************************************************************************)
(* Properties of the pipeline                                               *)
(***************************************************************************)
\* C3: when a pass of the cycle's pipeline has ended, the persisted retry
\* queue holds exactly the links whose outcome in that pass was
\* retry_next_cycle: each of them has an item, and no other link has one.
C3_QueueHoldsDeferred ==
    (pass_pc = "done" /\ passes # <<>>) =>
        {retry_queue_file[i].link : i \in DOMAIN retry_queue_file}
            = Last(passes).deferred

\* C5: reconciliation is idempotent: of two passes in a row over the same
\* account, the tree changed by the first pass only, the second one writes
\* no pointer file (created = 0).
C5_SecondRunWritesNothing ==
    \A k \in 2..Len(passes) :
        (passes[k - 1].success /\ passes[k].success) => passes[k].created = 0

(***************************************************************************)
(* Properties of unrestrict_links_batch                                     *)
(***************************************************************************)
\* C11: unrestrict_links_batch returns one outcome per input link in input
\* order: the results gathered so far are the outcomes of a prefix of the
\* links, one per completed group, and the returned list has the length of
\* the input with result[i].link = links[i].
C11_OneOutcomePerLink ==
    /\ \A i \in DOMAIN results :
          i <= Len(links) /\ results[i].link = links[i]
                          /\ results[i].status \in UnrestrictStatuses
    /\ batch_pc \in {"next", "pacing", "done"} =>
          Len(results) = IF batch_i * concurrency_limit < Len(links)
                         THEN batch_i * concurrency_limit ELSE Len(links)
    /\ batch_pc = "done" => Len(results) = Len(links)

C11_Witness ==
    /\ batch_pc = "done"
    /\ Len(links) = 4
    /\ Len(results) = 4
    /\ \E i, j, k \in DOMAIN results :
          /\ results[i].status = "success"
          /\ results[j].status = "failed_other"
          /\ results[k].status = "exception"

\* C12: at every instant at most concurrency_limit unrestrict calls are in
\* flight, all of them for links of the current group, and outside the
\* gather of a group no call is in flight: a group starts only after every
\* task of the group before it has returned.
InFlight == {t \in Tasks : task[t].pc \notin {"idle", "done"}}

C12_BoundedInFlight ==
    /\ Cardinality(InFlight) <= concurrency_limit
    /\ \A t \in InFlight :
          \E i \in DOMAIN BatchOf(batch_i) : t = i /\ task[t].link = BatchOf(batch_i)[i]
    /\ batch_pc # "gather" => InFlight = {}
    /\ \A i \in DOMAIN results : results[i].status # "none"

C12_Witness ==
    /\ Len(links) > concurrency_limit
    /\ batch_i = 1
    /\ \A t \in Tasks : task[t].pc = "post"


(***************************************************************************)
(* Properties of fetch_torrents                                             *)
(***************************************************************************)
\* The torrents of the pages served so far, in the order of the pages.
RECURSIVE Concat(_)
Concat(pages) ==
    IF pages = <<>> THEN <<>>
    ELSE Concat(SubSeq(pages, 1, Len(pages) - 1)) \o pages[Len(pages)].data

FullPage(response) == response.status = 200 /\ Len(response.data) = limit

\* C13: fetch_torrents stops at the first page that holds fewer than limit
\* items: when page k is that page, the pages before it were full, page k is
\* the last request made (exactly k requests) and the result is the
\* concatenation of pages 1..k.
C13_StopsAtShortPage ==
    /\ all_torrents = Concat(served)
    /\ \A k \in DOMAIN served :
          served[k].status = 200 /\ Len(served[k].data) < limit =>
              /\ k = Len(served)
              /\ page = k
              /\ fetch_pc # "request"
              /\ \A j \in 1..(k - 1) : FullPage(served[j])

C13_Witness ==
    /\ Len(served) = 2
    /\ FullPage(served[1])
    /\ served[2].status = 200 /\ Len(served[2].data) = 1
    /\ fetch_pc = "collect"
    /\ Len(all_torrents) = limit + 1
    /\ all_torrents[limit + 1].id = limit + 1

\* C14: when the request of page k meets a status other than 200 and 404, or
\* raises, no further request is made and the result is what pages 1..k-1
\* gave; the caller takes a non-empty partial result as a normal one and goes
\* on to collect the links, and stops only on an empty one.
C14_ErrorEndsPagination ==
    \A k \in DOMAIN served :
        served[k].status \notin {200, 404} =>
            /\ k = Len(served)
            /\ fetch_pc # "request"
            /\ all_torrents = Concat(SubSeq(served, 1, k - 1))
            /\ \A j \in 1..(k - 1) : FullPage(served[j])
            /\ fetch_pc = "collect" => all_torrents # <<>>
            /\ fetch_pc = "no_torrents" => all_torrents = <<>>

C14_Witness ==
    /\ Len(served) = 2
    /\ FullPage(served[1])
    /\ served[2].status = 500
    /\ fetch_pc = "collect"
    /\ Len(all_torrents) = limit

\* C15: fetch_torrents always terminates: it makes at most max_pages page
\* requests and then returns the torrents accumulated so far, whatever the
\* responses were.
C15_FetchTerminates ==
    /\ [](/\ Len(served) <= max_pages
          /\ page <= max_pages + 1
          /\ fetch_pc \in {"request", "returned", "collect", "no_torrents"}
          /\ Len(served) = max_pages => fetch_pc # "request")
    /\ <>(fetch_pc \in {"collect", "no_torrents"})

C15_Witness ==
    /\ Len(served) = max_pages
    /\ \A k \in DOMAIN served : FullPage(served[k])
    /\ page = max_pages + 1
    /\ fetch_pc = "collect"
    /\ Len(all_torrents) = max_pages * limit


(***************************************************************************)
(* Properties of the pointer files                                          *)
(***************************************************************************)
RECURSIVE Flatten(_)
Flatten(groups) == IF groups = <<>> THEN <<>> ELSE Head(groups) \o Flatten(Tail(groups))

\* The file candidates of a reconciliation over the present account.
Candidates(skip_existing, existing_urls) ==
    Flatten(TorrentGroups(remote.torrents, unrestricted_file, skip_existing,
                          existing_urls))

StrmPath(file_info) == <<file_info.folder_name, file_info.sanitized_name>>

SameAsStored(file_info) ==
    /\ StrmPath(file_info) \in DOMAIN strm
    /\ strm[StrmPath(file_info)].url = file_info.download_url

Reconciles == pass_pc = "group" /\ pass_pc' = "done"

C17_RoundTrip ==
    (pass_pc = "done" /\ Len(passes) = 1 /\ passes[1].success) =>
        \A cs \in {Candidates(FALSE, {})} :
            \A i \in DOMAIN cs :
                /\ StrmPath(cs[i]) \in DOMAIN strm
                /\ strm[StrmPath(cs[i])].url = cs[i].download_url

\* The links that have a resolved URL in a set of URLs.
ResolvedIn(urls) ==
    {link \in PassLinks : /\ InUnrestricted(unrestricted_file, link)
                          /\ Unrestricted(unrestricted_file, link).download \in urls}

\* C18: a reconciliation that skips (cycle mode) makes no file candidate of
\* a resolved link whose URL is in the skip set, existing less expired
\* pointer URLs, and writes no pointer file for it: total_files, created
\* and skipped count the other links only, and no file that is new or
\* changed after the reconciliation holds a URL of the skip set.
C18_ExistingSkipped ==
    [][(Reconciles /\ Last(passes').skip_existing) =>
        \A existing_urls \in {Last(passes').existing_urls} :
        \A cs \in {Candidates(TRUE, existing_urls)} :
            /\ existing_urls \subseteq ExistingUrls
            /\ \A i \in DOMAIN cs : cs[i].original_link \notin ResolvedIn(existing_urls)
            /\ Last(passes').total_files = Len(cs)
            /\ Last(passes').created + Last(passes').skipped = Len(cs)
            /\ \A p \in DOMAIN strm' :
                  (p \notin DOMAIN strm \/ strm'[p] # strm[p]) =>
                      strm'[p].url \notin existing_urls
    ]_vars

C18_Witness ==
    /\ Len(passes) = 2
    /\ pass_pc = "done"
    /\ passes[1].created = 2
    /\ passes[2].skip_existing
    /\ passes[2].existing_urls = {DirectUrl(1)}
    /\ ExistingUrls = {DirectUrl(1), DirectUrl(2)}
    /\ passes[2].total_files = 1
    /\ passes[2].created = 0 /\ passes[2].skipped = 1

(***************************************************************************)
(* Properties of the expiry check                                           *)
(***************************************************************************)
Age(entry) == now - entry.created_at

\* C19: once a cycle has made its expiry check, the URL of every tracking
\* entry older than file_expiry_days is in the expired set and not in the
\* skip set the cycle passes to the reconciliation, whether or not a pointer
\* file holds it; every expired URL has such an entry, so an entry that is
\* file_expiry_days old or younger does not make its URL expired.
C19_ExpiredNotSkipped ==
    (sched_pc = "in_cycle" /\ cycle_pc \in {"retry", "process"}) =>
        /\ \A k \in DOMAIN file_tracking :
              Age(file_tracking[k]) > file_expiry_days * Day =>
                  /\ file_tracking[k].url \in expired_urls
                  /\ file_tracking[k].url \notin SkipSet
        \* (stated of the tracking map the check read: the drain of the
        \* retry queue that follows may overwrite a retry entry)
        /\ cycle_pc = "retry" =>
              \A url \in expired_urls :
                  \E k \in DOMAIN file_tracking :
                      /\ file_tracking[k].url = url
                      /\ Age(file_tracking[k]) > file_expiry_days * Day
        /\ SkipSet \subseteq ExistingUrls

C19_Witness ==
    /\ sched_pc = "in_cycle" /\ cycle_pc = "process"
    /\ \E p, q \in DOMAIN strm :
          /\ strm[p].url \in existing_files /\ strm[q].url \in existing_files
          /\ FileKey(p) \in DOMAIN file_tracking /\ FileKey(q) \in DOMAIN file_tracking
          /\ Age(file_tracking[FileKey(p)]) = (file_expiry_days + 1) * Day
          /\ Age(file_tracking[FileKey(q)]) = file_expiry_days * Day
          /\ expired_urls = {strm[p].url}
          /\ SkipSet = {strm[q].url}

(***************************************************************************)
(* Properties of should_process_file                                        *)
(***************************************************************************)
HasVideoExtension(filename) == Lower(Suffix(filename)) \in allowed_video_extensions

\* C20: for a file with a video extension should_process_file returns
\* should_process = false, category video_small for every size below
\* 300*1024*1024 bytes, and should_process = true, category video for
\* exactly 300*1024*1024 bytes and every larger size.
C20_VideoSizeBoundary ==
    (filter_pc = "returned" /\ HasVideoExtension(filter_args.filename)) =>
        /\ filter_args.filesize < 300 * 1024 * 1024 =>
              filter_result = [should_process |-> FALSE, category |-> "video_small"]
        /\ filter_args.filesize >= 300 * 1024 * 1024 =>
              filter_result = [should_process |-> TRUE, category |-> "video"]

C20_Witness ==
    /\ filter_pc = "returned"
    /\ filter_args.filename = <<"a", ".", "M", "K", "V">>
    /\ filter_args.filesize = 300 * 1024 * 1024
    /\ filter_result = [should_process |-> TRUE, category |-> "video"]

HasSubtitleExtension(filename) ==
    Lower(Suffix(filename)) \in allowed_subtitle_extensions

\* C21: for a file whose extension is one of .srt, .ass, .vtt, .sub, .idx,
\* .ssa, .smi should_process_file returns should_process = true, category
\* subtitle, whatever the size (0 included) and whatever the MIME type (a
\* video one included).
C21_SubtitleAlways ==
    (filter_pc = "returned" /\ HasSubtitleExtension(filter_args.filename)) =>
        filter_result = [should_process |-> TRUE, category |-> "subtitle"]

C21_Witness ==
    /\ filter_pc = "returned"
    /\ filter_args = [filename |-> <<"a", ".", "S", "R", "T">>, filesize |-> 0,
                      mime_type |-> "video/x-matroska"]
    /\ filter_result = [should_process |-> TRUE, category |-> "subtitle"]

(***************************************************************************)
(* Properties of sanitize_filename                                          *)
(***************************************************************************)
\* C22: sanitize_filename is idempotent: called on what it returned it
\* returns the same name, the short-name fallback included.
C22_SanitizeIdempotent ==
    Len(sanitize_out) = 2 => sanitize_out[2] = sanitize_out[1]

(***************************************************************************)
(* Properties of unrestrict_link                                            *)
(***************************************************************************)
\* The responses a call goes on after: a 429 or a 503 that is retried.
Retried(status) == status \in {429, 503}

\* C23: unrestrict_link never raises to its caller and always terminates
\* with a tagged result: success after a 200, failed_other with the HTTP
\* status after a status other than 200, 429 and 503, exception after a
\* transport exception (response 0), none of the three being retried: the
\* response that gave it is the last one of the call.
C23_AlwaysTaggedResult ==
    /\ [](\A t \in Tasks :
            /\ task[t].pc # "raised"
            /\ \A i \in DOMAIN task[t].responses :
                  ~Retried(task[t].responses[i]) =>
                      /\ i = Len(task[t].responses)
                      /\ task[t].pc = "done"
                      /\ task[t].posts = i
            /\ task[t].pc = "done" =>
                  /\ task[t].responses # <<>>
                  /\ task[t].result.link = task[t].link
                  /\ task[t].result.status \in UnrestrictStatuses
                  /\ Last(task[t].responses) = 200 =>
                        task[t].result.status = "success"
                  /\ Last(task[t].responses) = 0 =>
                        task[t].result.status = "exception"
                  /\ Last(task[t].responses) \notin {0, 200, 429, 503} =>
                        /\ task[t].result.status = "failed_other"
                        /\ task[t].result.http_status = Last(task[t].responses))
    /\ <>(task[1].pc = "done")

C23_Witness ==
    /\ task[1].pc = "done"
    /\ task[1].responses = <<429, 503, 500>>
    /\ task[1].posts = 3
    /\ task[1].result.status = "failed_other"
    /\ task[1].result.http_status = 500

(***************************************************************************)
(* Properties of a reconciliation on a failing disk                         *)
(***************************************************************************)
\* The candidate's own folder and file can be created.
Writable(file_info) ==
    /\ file_info.folder_name \notin faults.folders
    /\ StrmPath(file_info) \notin faults.files

\* C24: when the folder or the pointer file of one candidate cannot be
\* created, every other accepted candidate, of the same and of the other
\* torrent folders, has its pointer file after the reconciliation, and the
\* candidates that failed are not counted as created.
C24_FailureIsolated ==
    (pass_pc = "done" /\ Len(passes) = 1) =>
        \A cs \in {Candidates(FALSE, {})} :
            /\ \A i \in DOMAIN cs : Writable(cs[i]) => StrmPath(cs[i]) \in DOMAIN strm
            /\ passes[1].created <= Cardinality({i \in DOMAIN cs : Writable(cs[i])})

(***************************************************************************)
(* Properties of the eligibility of torrents                                *)
(***************************************************************************)
Ineligible == {i \in DOMAIN remote.torrents : remote.torrents[i].status # "downloaded"}

IneligibleLinks ==
    UNION {{remote.torrents[i].links[k] : k \in DOMAIN remote.torrents[i].links} :
              i \in Ineligible}

\* C25: only downloaded torrents are eligible: no link of a torrent of
\* another status is handed to the resolver, and no pointer file exists in
\* the folder of such a torrent or holds the URL of one of its links, also
\* when the persisted resolved-link list has a successful entry for the link.
C25_OnlyDownloaded ==
    /\ submitted \cap IneligibleLinks = {}
    /\ \A k \in DOMAIN links : links[k] \notin IneligibleLinks
    /\ \A p \in DOMAIN strm :
          /\ \A i \in Ineligible : p[1] # sanitize_folder_name(remote.torrents[i].filename)
          /\ \A link \in IneligibleLinks : strm[p].url # DirectUrl(link)

C25_Witness ==
    /\ pass_pc = "done"
    /\ Len(passes) = 1 /\ passes[1].success
    /\ Ineligible = {1}
    /\ IneligibleLinks = {1, 2}
    /\ InUnrestricted(unrestricted_file, 1)
    /\ submitted = {}
    /\ strm = EmptyDict

(***************************************************************************)
(* Properties of the persisted resolved-link list                           *)
(***************************************************************************)
IsPrefix(s, t) == Len(s) <= Len(t) /\ SubSeq(t, 1, Len(s)) = s

IsFileKey(k) == k[1] = "file"

\* C27: once a pointer-file path has a tracking entry, no later step of any
\* cycle changes the created_at of the entry or removes it, also when the
\* scan sees the file again with another creation time.
C27_CreatedAtKept ==
    [][\A k \in DOMAIN file_tracking :
          IsFileKey(k) =>
              /\ k \in DOMAIN file_tracking'
              /\ file_tracking'[k].created_at = file_tracking[k].created_at
    ]_vars

C27_Witness ==
    /\ cycle_count = 2
    /\ cycle_pc = "expiry"
    /\ PathOf(1) \in DOMAIN strm
    /\ strm[PathOf(1)].ctime = 0
    /\ FileKey(PathOf(1)) \in DOMAIN file_tracking
    /\ file_tracking[FileKey(PathOf(1))].created_at = 0 - (file_expiry_days + 1) * Day

\* A pointer file that was rewritten after the scheduler started.
Refreshed(p) == strm[p].url # DirectUrl(LinkOf(p))

\* C28: when a pointer file was overwritten with another URL, the scan of
\* the next cycle supersedes its tracking entry: the entry holds the URL the
\* file holds now and the time of the refresh as created_at, and the expiry
\* check of that cycle does not report the entry.
C28_RefreshSupersedes ==
    (sched_pc = "in_cycle" /\ cycle_pc \in {"expiry", "retry", "process"}) =>
        \A p \in DOMAIN strm :
            Refreshed(p) =>
                /\ FileKey(p) \in DOMAIN file_tracking
                /\ file_tracking[FileKey(p)].url = strm[p].url
                /\ file_tracking[FileKey(p)].created_at = strm[p].ctime
                /\ cycle_pc # "expiry" =>
                      file_tracking[FileKey(p)].url \notin expired_urls

(***************************************************************************)
(* Properties of the retry queue                                            *)
(***************************************************************************)
\* C29: the drain of the retry queue, step 2 of every cycle, removes every
\* queued item and leaves an empty queue in memory and in retry_queue.json,
\* reports processed = succeeded = the length the queue had and failed = 0,
\* and hands no queued link to the resolver: no request is issued.
C29_QueueDrained ==
    [][(cycle_pc = "retry" /\ cycle_pc' = "process") =>
          /\ retry_queue' = <<>>
          /\ retry_queue_file' = <<>>
          /\ retry_results' = [processed |-> Len(retry_queue),
                               succeeded |-> Len(retry_queue), failed |-> 0]
          /\ submitted' = {}
          /\ issued' = issued /\ request_times' = request_times
          /\ task' = task /\ links' = links
    ]_vars

C29_Witness ==
    /\ sched_pc = "in_cycle"
    /\ cycle_pc = "process"
    /\ cycle_count = 1
    /\ retry_results = [processed |-> 2, succeeded |-> 2, failed |-> 0]
    /\ retry_queue = <<>>
    /\ retry_queue_file = <<>>
    /\ issued = <<>>
    /\ submitted = {}

(***************************************************************************)
(* Properties of the rate limiter inside one call                           *)
(***************************************************************************)
\* The call is inside _enforce_rate_limit.
InLimiter(t) == task[t].pc \in {"rl_enter", "rl_budget_sleep", "rl_spacing_sleep"}

\* C30: every POST of a call of unrestrict_link, the first and every retry
\* after a 429 or 503 backoff, is preceded by its own completed call of
\* _enforce_rate_limit: a POST is issued only by the step in which the
\* limiter records the request and returns, and at every moment the call has
\* acquired the limiter exactly as often as it has issued a POST.
C30_LimiterBeforeEveryPost ==
    /\ [](\A t \in Tasks : task[t].acquired = task[t].posts)
    /\ [][\A t \in Tasks :
            task'[t].posts # task[t].posts =>
               /\ InLimiter(t)
               /\ task'[t].posts = task[t].posts + 1
               /\ task'[t].acquired = task[t].acquired + 1
               /\ request_times' # <<>>
               /\ Last(request_times') = now
               /\ Len(issued') = Len(issued) + 1
               /\ task'[t].pc = "post"
       ]_vars

\* The call has retried after a 429 and after a 503 and is at its fourth POST.
C30_Witness ==
    /\ task[1].pc = "post"
    /\ task[1].posts = 4
    /\ task[1].acquired = 4
    /\ \E i, j \in 1..3 : task[1].responses[i] = 429 /\ task[1].responses[j] = 503
    /\ Len(task[1].responses) = 3

(***************************************************************************)
(* Properties of the pacing between groups                                  *)
(***************************************************************************)
\* C31: for every group that is followed by another group, at least
\* len(group) * delay_between_requests seconds lie between the start of the
\* group and the start of the next one, however long the resolutions took.
C31_GroupPacing ==
    [][(batch_i >= 1 /\ batch_i' = batch_i + 1) =>
          batch_start_time' - batch_start_time >=
              Len(BatchOf(batch_i)) * delay_between_requests
    ]_vars

\* The second group has started after a pause: the first group of three
\* links was resolved in less than three request intervals.
C31_Witness ==
    /\ batch_i = 2
    /\ batch_pc = "gather"
    /\ Len(results) = concurrency_limit
    /\ batch_start_time = concurrency_limit * delay_between_requests
    /\ batch_wake = batch_start_time

(***************************************************************************)
(* Properties of the expired set                                            *)
(***************************************************************************)
\* C32: in every cycle, once the expiry check has run, every expired URL is
\* the content of a pointer file that is present in the media tree.
C32_ExpiredArePresent ==
    (sched_pc = "in_cycle" /\ cycle_pc \in {"retry", "process"}) =>
        expired_urls \subseteq ExistingUrls

(***************************************************************************)
(* Properties of the persisted state                                        *)
(***************************************************************************)
\* C33: at the start of every cycle the retry queue and the file-tracking
\* map the cycle works with equal what retry_queue.json and
\* file_tracking.json hold at that moment, also after a cycle in which
\* saving one of the files failed.
C33_StateReloaded ==
    (sched_pc = "in_cycle" /\ cycle_pc = "scan") =>
        /\ retry_queue = retry_queue_file
        /\ file_tracking = file_tracking_file

(***************************************************************************)
(* Properties of the writers                                                *)
(***************************************************************************)
\* C34: at most one cycle is active at any time -- a cycle of the scheduler
\* or a pass of the pipeline starts only when the one before has ended --
\* and no pointer file and no persisted state file (retry queue, file
\* tracking, resolved-link list) is written while a link-resolution task is
\* in flight.
C34_SingleWriter ==
    /\ [][cycle_count' # cycle_count => cycle_pc = "idle"]_vars
    /\ [][(pass_pc' = "start" /\ pass_pc # "start") => pass_pc = "done"]_vars
    /\ [][(\/ strm' # strm
           \/ unrestricted_file' # unrestricted_file
           \/ links_file' # links_file
           \/ retry_queue_file' # retry_queue_file
           \/ file_tracking_file' # file_tracking_file) =>
              InFlight = {}
       ]_vars

\* The resolved-link list and the pointer files have been written after
\* two groups of calls, which the rate limiter had held back.
C34_Witness ==
    /\ pass_pc = "done"
    /\ Len(results) = PipelineLinks
    /\ batch_i = 2
    /\ \E t \in Tasks : task[t].pc = "done" /\ task[t].responded_at > 0
    /\ Len(unrestricted_file) = PipelineLinks
    /\ strm # EmptyDict

(***************************************************************************)
(* Termination of one call of unrestrict_link                               *)
(***************************************************************************)
\* C35: a call of unrestrict_link returns for every sequence of responses:
\* the 429 counter and the 503 counter are independent and never reset, so
\* whatever the interleaving of 429 and 503 responses the call issues at
\* most retry_429_attempts + retry_503_attempts + 1 POSTs, and it returns.
C35_CallTerminates ==
    /\ [](\A t \in Tasks :
            /\ task[t].posts <= retry_429_attempts + retry_503_attempts + 1
            /\ Count(task[t].responses, 429) <= retry_429_attempts + 1
            /\ Count(task[t].responses, 503) <= retry_503_attempts + 1
            /\ task[t].pc # "done" =>
                  /\ task[t].rate_limit_attempts = Count(task[t].responses, 429)
                  /\ task[t].server_error_attempts = Count(task[t].responses, 503))
    /\ <>(task[1].pc = "done")

\* The call has used up both retry budgets, the two kinds of response
\* interleaved, and has returned after its last POST.
C35_Witness ==
    /\ task[1].pc = "done"
    /\ retry_429_attempts = MaxRetry429
    /\ retry_503_attempts = MaxRetry503
    /\ task[1].posts = MaxRetry429 + MaxRetry503 + 1
    /\ task[1].responses[1] = 429
    /\ task[1].responses[2] = 503
    /\ task[1].responses[3] = 429
    /\ Last(task[1].responses) = 503

(***************************************************************************)
(* Properties of the selection of new links                                 *)
(***************************************************************************)
\* The list holds an entry for the link, whatever its status.
HasEntry(unrestricted_data, link) ==
    \E i \in DOMAIN unrestricted_data : unrestricted_data[i].link = link

C37_ExpiredNeverShrinks ==
    [][/\ expired_urls \subseteq expired_urls'
       /\ \A k \in DOMAIN file_tracking :
             IsExpired(file_tracking[k].created_at) =>
                 /\ k \in DOMAIN file_tracking'
                 /\ file_tracking'[k] = file_tracking[k]
    ]_vars

(***************************************************************************)
(* Properties of the media tree across passes                               *)
(***************************************************************************)
\* The folder belongs to a torrent the catalog lists as downloaded.
InCatalog(folder_name) ==
    \E i \in DOMAIN remote.torrents :
        /\ IsDownloaded(remote.torrents[i])
        /\ sanitize_folder_name(remote.torrents[i].filename) = folder_name

\* C38: no pass deletes or renames a pointer file or a folder: every path
\* that exists still exists after every step, and the pointer file of a
\* torrent that has left the catalog or is not downloaded any more keeps the
\* URL it held.
C38_TreeOnlyGrows ==
    [][\A p \in DOMAIN strm :
          /\ p \in DOMAIN strm'
          /\ ~InCatalog(p[1]) => strm'[p] = strm[p]
    ]_vars

\* The second pass is over: the torrent whose pointer file the first pass
\* wrote is not a downloaded torrent of the catalog any more, and the file
\* is there with its URL.
C38_Witness ==
    /\ pass_pc = "done"
    /\ Len(passes) = 2
    /\ passes[1].success /\ passes[1].created >= 1
    /\ passes[2].success
    /\ \E p \in DOMAIN strm : ~InCatalog(p[1]) /\ strm[p].url = DirectUrl(1)

(***************************************************************************)
(* Properties of a pass over an empty catalog                               *)
(***************************************************************************)
\* C39: when the catalog fetch yields an empty list, the pass returns a
\* failure result and writes nothing: no link is submitted and no request
\* issued, realdebrid_torrents.json, realdebrid_unrestricted.json and
\* realdebrid_links.txt are left as they were, and no pointer file is
\* created or modified.
C39_EmptyCatalogWritesNothing ==
    [][(pass_pc = "start" /\ pass_pc' # "start" /\ remote.torrents = <<>>) =>
          /\ pass_pc' = "done"
          /\ passes' = Append(passes, PassResult(FALSE, 0, 0, {}))
          /\ submitted' = {}
          /\ links' = <<>>
          /\ issued' = issued /\ task' = task
          /\ torrents_file' = torrents_file
          /\ unrestricted_file' = unrestricted_file
          /\ links_file' = links_file
          /\ strm' = strm
    ]_vars

\* The account is empty in the second pass: the pass has failed, and the
\* snapshot, the resolved-link list, the links export and the pointer file
\* of the first pass are there.
C39_Witness ==
    /\ pass_pc = "done"
    /\ Len(passes) = 2
    /\ passes[1].success /\ passes[1].created >= 1
    /\ ~passes[2].success
    /\ remote.torrents = <<>>
    /\ torrents_file = Catalog("downloaded", "downloaded")
    /\ unrestricted_file # <<>>
    /\ links_file # <<>>
    /\ strm # EmptyDict
    /\ submitted = {}

=============================================================================
